---------------------------- MODULE Spec2Model ----------------------------
(***************************************************************************)
(* Open Captions: the content script (src/src/content.ts) and the subtitle *)
(* overlay (src/src/SubtitleOverlay.ts) as a state machine.                *)
(*                                                                         *)
(* Numbers are JavaScript numbers, i.e. IEEE 754 binary64 values.  A       *)
(* finite number is a sign and a magnitude; the magnitude is the set of    *)
(* the binary positions that hold a 1 (value = sum of 2^k for k in bits),  *)
(* so every operation is computed exactly and then rounded to the 53-bit   *)
(* significand, round-to-nearest, ties-to-even, as the hardware does.      *)
(* Exponent range (overflow to Infinity, subnormals) is not modelled: the  *)
(* values of the model stay far inside it.  -0 is identified with 0.       *)
(*                                                                         *)
(* Text is a sequence of one-character strings.                            *)
(***************************************************************************)
EXTENDS Integers, Sequences, FiniteSets, TLC

(***************************************************************************)
(* JavaScript numbers                                                      *)
(***************************************************************************)

\* Significand width of a JavaScript number (binary64).
MantissaBits == 53

NaN == [nan |-> TRUE, neg |-> FALSE, bits |-> {}]

Min(S) == CHOOSE k \in S : \A j \in S : k <= j

Max(S) == 0 - Min({0 - k : k \in S})

SymDiff(A, B) == (A \ B) \cup (B \ A)

Bit(A, k) == IF k \in A THEN 1 ELSE 0

\* The eight bits of A at positions k .. k-7 as a natural number.
Byte(A, k) ==
    128 * Bit(A, k) + 64 * Bit(A, k - 1) + 32 * Bit(A, k - 2) + 16 * Bit(A, k - 3)
    + 8 * Bit(A, k - 4) + 4 * Bit(A, k - 5) + 2 * Bit(A, k - 6) + Bit(A, k - 7)

\* The sixteen bits of A at positions b .. b+15 as a natural number (a limb).
Limb(A, b) == Byte(A, b + 7) + 256 * Byte(A, b + 15)

\* The positions of the 1s of the natural v < 2^31, counted from position b.
BitsAt(v, b) == {b + k : k \in {i \in 0 .. 30 : (v \div (2 ^ i)) % 2 = 1}}

\* The limbs of A + B from position b up, n of them; s is the sum of the
\* two limbs at b and the carry into them.
RECURSIVE AddLimbs(_, _, _, _, _)
AddLimbs(A, B, b, n, s) ==
    IF n = 1 THEN BitsAt(s, b)
    ELSE BitsAt(s % 65536, b)
         \cup AddLimbs(A, B, b + 16, n - 1,
                       Limb(A, b + 16) + Limb(B, b + 16) + (s \div 65536))

\* Exact sum of two magnitudes that together span at most 96 positions:
\* limb by limb from the lowest position, with carries.
MagAdd(A, B) ==
    IF A = {} THEN B
    ELSE IF B = {} THEN A
    ELSE AddLimbs(A, B, Min(A \cup B), 6,
                  Limb(A, Min(A \cup B)) + Limb(B, Min(A \cup B)))

\* A limb difference d in -65536 .. 65535 as a limb, and the borrow it takes.
Wrap(d) == IF d < 0 THEN d + 65536 ELSE d

Borrow(d) == IF d < 0 THEN 1 ELSE 0

\* The limbs of A - B from position b up, n of them; d is the difference of
\* the two limbs at b less the borrow from below.
RECURSIVE SubLimbs(_, _, _, _, _)
SubLimbs(A, B, b, n, d) ==
    IF n = 1 THEN BitsAt(Wrap(d), b)
    ELSE BitsAt(Wrap(d), b)
         \cup SubLimbs(A, B, b + 16, n - 1,
                       Limb(A, b + 16) - Limb(B, b + 16) - Borrow(d))

\* Exact difference A - B of two magnitudes, for A >= B, that together span
\* at most 96 positions: limb by limb from the lowest position, with borrows.
MagSub(A, B) ==
    IF B = {} THEN A
    ELSE SubLimbs(A, B, Min(A \cup B), 6,
                  Limb(A, Min(A \cup B)) - Limb(B, Min(A \cup B)))

MagLess(A, B) == A # B /\ Max(SymDiff(A, B)) \in B

\* Round the exact magnitude A, whose last kept position is lo, to
\* nearest-even: up when the first dropped bit is set and either a lower
\* one is or the last kept one is.
RoundAt(A, lo) ==
    IF (lo - 1) \in A /\ ((\E k \in A : k < lo - 1) \/ lo \in A)
    THEN MagAdd({k \in A : k >= lo}, {lo})
    ELSE {k \in A : k >= lo}

\* Round an exact magnitude to MantissaBits significant bits, nearest-even.
RoundMag(A) == IF A = {} THEN {} ELSE RoundAt(A, Max(A) - (MantissaBits - 1))

Num(neg, bits) == [nan |-> FALSE, neg |-> neg /\ bits # {}, bits |-> bits]

\* Number of binary digits of a natural number.
RECURSIVE BitLen(_)
BitLen(n) == IF n = 0 THEN 0 ELSE 1 + BitLen(n \div 2)

NatBits(n) == BitsAt(n, 0)

\* The number that an integer literal (or an integer-valued expression) denotes.
FromInt(n) == IF n < 0 THEN Num(TRUE, NatBits(-n)) ELSE Num(FALSE, NatBits(n))

Zero == FromInt(0)

One == FromInt(1)

FNeg(x) == IF x.nan THEN NaN ELSE Num(~x.neg, x.bits)

\* The magnitude B as it counts in a sum or difference whose larger operand
\* has its highest 1 at position top: the bits from position top - 80 up, and
\* one sticky bit below them for all the lower ones.  The lower bits lie far
\* below the last place of the result, so that they decide its rounding only
\* by not being zero.
Window(B, top) ==
    IF \A k \in B : k >= top - 80 THEN B
    ELSE {k \in B : k >= top - 80} \cup {top - 81}

\* The sum of two signed magnitudes, exact.
AddSigned(xneg, X, yneg, Y) ==
    IF xneg = yneg THEN Num(xneg, MagAdd(X, Y))
    ELSE IF MagLess(X, Y) THEN Num(yneg, MagSub(Y, X))
    ELSE Num(xneg, MagSub(X, Y))

\* A number rounded to the significand width.
Rounded(x) == Num(x.neg, RoundMag(x.bits))

\* x + y
FAdd(x, y) ==
    IF x.nan \/ y.nan THEN NaN
    ELSE IF x.bits = {} THEN y
    ELSE IF y.bits = {} THEN x
    ELSE Rounded(AddSigned(x.neg, Window(x.bits, Max(x.bits \cup y.bits)),
                           y.neg, Window(y.bits, Max(x.bits \cup y.bits))))

\* x - y
FSub(x, y) == FAdd(x, FNeg(y))

\* x < y
FLess(x, y) ==
    /\ ~x.nan /\ ~y.nan
    /\ x # y
    /\ IF x.neg # y.neg THEN x.neg
       ELSE IF x.neg THEN MagLess(y.bits, x.bits) ELSE MagLess(x.bits, y.bits)

\* x >= y
FGeq(x, y) == ~x.nan /\ ~y.nan /\ ~FLess(x, y)

\* x > y
FGreater(x, y) == FLess(y, x)

\* Long division of the magnitude A by the natural d (0 < d < 2^22), eight
\* bits at a time from position k down to below position stop; v is the
\* running remainder with the eight bits at k appended, Q the quotient so
\* far.  A nonzero final remainder becomes a sticky bit below the quotient.
RECURSIVE DivStep(_, _, _, _, _, _)
DivStep(A, d, k, stop, v, Q) ==
    IF k - 8 < stop
    THEN Q \cup BitsAt(v \div d, k - 7) \cup (IF v % d # 0 THEN {k - 8} ELSE {})
    ELSE DivStep(A, d, k - 8, stop, 256 * (v % d) + Byte(A, k - 8),
                 Q \cup BitsAt(v \div d, k - 7))

\* The quotient of the magnitude A, with its highest 1 at position t, by d,
\* to two places beyond the significand width and a sticky bit.
MagDivNat(A, d, t) ==
    DivStep(A, d, t, t - BitLen(d) - (MantissaBits + 2), Byte(A, t), {})

\* x / d for a natural d > 0, correctly rounded.
FDivNat(x, d) ==
    IF x.nan THEN NaN
    ELSE IF x.bits = {} THEN Zero
    ELSE Num(x.neg, RoundMag(MagDivNat(x.bits, d, Max(x.bits))))

\* The limbs of A * n from position b up, k of them; p is the product of the
\* limb at b and the carry into it.
RECURSIVE MulLimbs(_, _, _, _, _)
MulLimbs(A, n, b, k, p) ==
    IF k = 1 THEN BitsAt(p, b)
    ELSE BitsAt(p % 65536, b)
         \cup MulLimbs(A, n, b + 16, k - 1, Limb(A, b + 16) * n + (p \div 65536))

\* The magnitude A, spanning at most 64 positions, times the natural
\* n < 2^14: limb by limb from the lowest position, with carries.
MagMulNat(A, n) ==
    IF n = 0 \/ A = {} THEN {}
    ELSE MulLimbs(A, n, Min(A), 4, Limb(A, Min(A)) * n)

\* x * n for a natural n.
FMulNat(x, n) == IF x.nan THEN NaN ELSE Num(x.neg, RoundMag(MagMulNat(x.bits, n)))

(***************************************************************************)
(* Strings: sequences of one-character strings                             *)
(***************************************************************************)

Digits == <<"0", "1", "2", "3", "4", "5", "6", "7", "8", "9">>

IsDigit(c) == \E d \in 1 .. 10 : Digits[d] = c

DigitVal(c) == (CHOOSE d \in 1 .. 10 : Digits[d] = c) - 1

\* White space that String.prototype.trim, parseInt and Number strip.
IsSpace(c) == c \in {" ", "\n", "\r", "\t"}

\* The least element of a set of indices, or 0 when there is none.
First(hits) == IF hits = {} THEN 0 ELSE Min(hits)

\* The first index >= from at which pat occurs in s, or 0.
IndexOf(s, pat, from) ==
    First({i \in from .. (Len(s) - Len(pat) + 1) : SubSeq(s, i, i + Len(pat) - 1) = pat})

\* s.includes(pat)
Includes(s, pat) == IndexOf(s, pat, 1) # 0

\* s.split(sep) for a non-empty separator string.
RECURSIVE Split(_, _)
Split(s, sep) ==
    LET i == IndexOf(s, sep, 1)
    IN  IF i = 0 THEN <<s>>
        ELSE <<SubSeq(s, 1, i - 1)>> \o Split(SubSeq(s, i + Len(sep), Len(s)), sep)

\* s cut to the first and the last of the indices in keep.
Between(s, keep) == IF keep = {} THEN <<>> ELSE SubSeq(s, Min(keep), Max(keep))

\* s.trim()
Trim(s) == Between(s, {i \in 1 .. Len(s) : ~IsSpace(s[i])})

\* parts.join(sep)
RECURSIVE Join(_, _)
Join(parts, sep) ==
    IF Len(parts) = 0 THEN <<>>
    ELSE IF Len(parts) = 1 THEN parts[1]
    ELSE parts[1] \o sep \o Join(Tail(parts), sep)

\* The value of a string of decimal digits.
RECURSIVE DigitsVal(_)
DigitsVal(s) ==
    IF Len(s) = 0 THEN 0 ELSE 10 * DigitsVal(SubSeq(s, 1, Len(s) - 1)) + DigitVal(s[Len(s)])

AllDigits(s) == \A i \in 1 .. Len(s) : IsDigit(s[i])

\* A literal without its sign.
Unsign(t) == IF Len(t) > 0 /\ t[1] \in {"-", "+"} THEN Tail(t) ELSE t

\* The value of the decimal literal int.frac, correctly rounded, negated
\* when neg; NaN when it has no digit or a character that is none.
Literal(neg, int, frac) ==
    IF ~AllDigits(int) \/ ~AllDigits(frac) \/ Len(int) + Len(frac) = 0 THEN NaN
    ELSE IF neg THEN FNeg(FDivNat(FromInt(DigitsVal(int \o frac)), 10 ^ Len(frac)))
    ELSE FDivNat(FromInt(DigitsVal(int \o frac)), 10 ^ Len(frac))

\* The unsigned literal u with its first point at index dot, 0 when it has none.
PointAt(neg, u, dot) ==
    Literal(neg, IF dot = 0 THEN u ELSE SubSeq(u, 1, dot - 1),
            IF dot = 0 THEN <<>> ELSE SubSeq(u, dot + 1, Len(u)))

\* Number(t) for a string t without white space around it.
StringToNumber(t) ==
    IF Len(t) = 0 THEN Zero
    ELSE PointAt(t[1] = "-", Unsign(t), IndexOf(Unsign(t), <<".">>, 1))

\* Number(str) for strings over digits, sign, point and other characters:
\* white space is trimmed, the empty string is 0, an optionally signed
\* decimal literal is its correctly rounded value, anything else is NaN.
\* (Exponents, hexadecimal and Infinity literals are outside the alphabet
\* of the model's texts.)
Number(str) == StringToNumber(Trim(str))

\* s from its first character that is no white space.
SkipSpace(s) == Between(s, {i \in 1 .. Len(s) : ~IsSpace(s[i])} \cup
                           (IF \A i \in 1 .. Len(s) : IsSpace(s[i]) THEN {} ELSE {Len(s)}))

\* The longest prefix of u made of decimal digits.
DigitRun(u) ==
    IF AllDigits(u) THEN u
    ELSE SubSeq(u, 1, Min({i \in 1 .. Len(u) : ~IsDigit(u[i])}) - 1)

\* The integer a run of digits spells, negated when neg; NaN for no digit.
IntegerOf(neg, run) ==
    IF Len(run) = 0 THEN NaN
    ELSE FromInt(IF neg THEN 0 - DigitsVal(run) ELSE DigitsVal(run))

\* parseInt(str): leading white space is skipped, then an optional sign and
\* the longest run of decimal digits; NaN when there is no digit.
\* The result is an integer, or NaN.
ParseInt(str) ==
    IntegerOf(Len(SkipSpace(str)) > 0 /\ SkipSpace(str)[1] = "-",
              DigitRun(Unsign(SkipSpace(str))))

(***************************************************************************)
(* SubtitleOverlay: the parser                                             *)
(***************************************************************************)

\* null / undefined: the value that is no number, no string and no object.
NULL == [null |-> TRUE]

\* hours * 3600 + minutes * 60 + seconds + ms / 1000
TimeValue(hours, minutes, seconds, ms) ==
    FAdd(FAdd(FAdd(FMulNat(hours, 3600), FMulNat(minutes, 60)), seconds),
         FDivNat(ms, 1000))

\* strs.map(Number)
MapNumber(strs) == [i \in 1 .. Len(strs) |-> Number(strs[i])]

\* A destructuring that reads two components as hours and minutes.
TimeOfPartsHoursFirst(timeParts, milliseconds) ==
    TimeValue(IF Len(timeParts) \in {2, 3} THEN timeParts[1] ELSE Zero,
              IF Len(timeParts) \in {2, 3} THEN timeParts[2] ELSE Zero,
              IF Len(timeParts) = 3 THEN timeParts[3] ELSE Zero,
              IF Len(milliseconds) > 0 THEN Number(milliseconds) ELSE Zero)

\* parseTime from the destructuring of timeParts on: three components are
\* hours, minutes and seconds, two are minutes and seconds, any other
\* number leaves all three 0; milliseconds is <<>> when undefined.
TimeOfParts(timeParts, milliseconds) ==
    TimeValue(IF Len(timeParts) = 3 THEN timeParts[1] ELSE Zero,
              IF Len(timeParts) = 3 THEN timeParts[2]
              ELSE IF Len(timeParts) = 2 THEN timeParts[1] ELSE Zero,
              IF Len(timeParts) = 3 THEN timeParts[3]
              ELSE IF Len(timeParts) = 2 THEN timeParts[2] ELSE Zero,
              IF Len(milliseconds) > 0 THEN Number(milliseconds) ELSE Zero)

\* parseTime from [time, milliseconds] = pieces on.
TimeOfPieces(pieces) ==
    TimeOfParts(MapNumber(Split(pieces[1], <<":">>)),
                IF Len(pieces) >= 2 THEN pieces[2] ELSE <<>>)

\* parseTime from cleanTime on: split at the comma when there is one, else
\* at the point.
TimeOfClean(cleanTime) ==
    TimeOfPieces(IF Includes(cleanTime, <<",">>) THEN Split(cleanTime, <<",">>)
                 ELSE Split(cleanTime, <<".">>))

\* parseTime(timeStr)
parseTime(timeStr) == TimeOfClean(Split(timeStr, <<" ">>)[1])

\* subtitleText.replace(/\r\n/g, '\n').replace(/\r/g, '\n')
NormalizeLineEndings(s) ==
    LET marked == [i \in 1 .. Len(s) |->
                      [c    |-> IF s[i] = "\r" THEN "\n" ELSE s[i],
                       drop |-> s[i] = "\r" /\ i < Len(s) /\ s[i + 1] = "\n"]]
        Kept(m) == ~m.drop
        kept   == SelectSeq(marked, Kept)
    IN  [i \in 1 .. Len(kept) |-> kept[i].c]

\* normalizedText.split(/\n\n+/)
RECURSIVE SplitBlocks(_)
SplitBlocks(s) ==
    LET starts == {i \in 1 .. (Len(s) - 1) : s[i] = "\n" /\ s[i + 1] = "\n"}
    IN  IF starts = {} THEN <<s>>
        ELSE LET i    == Min(starts)
                 rest == {j \in i .. Len(s) : s[j] # "\n"}
                 j    == IF rest = {} THEN Len(s) + 1 ELSE Min(rest)
             IN  <<SubSeq(s, 1, i - 1)>> \o SplitBlocks(SubSeq(s, j, Len(s)))

Arrow == <<" ", "-", "-", ">", " ">>

\* An index taken from parseInt without the isNaN test.
BlockIndexUnchecked(possibleIndex) == possibleIndex

\* The index of a block: parseInt of the line before the timestamp line when
\* there is one and it is a number, else 0.
BlockIndex(possibleIndex) == IF possibleIndex.nan THEN Zero ELSE possibleIndex

\* timeParts.map(t => t.trim()), each parsed by parseTime
MapParseTime(timeParts) == [i \in 1 .. Len(timeParts) |-> parseTime(Trim(timeParts[i]))]

\* A loop body that takes the first two tokens of the timestamp line and
\* keeps a cue without text.
BlockEntryLenient(lines, timeLineIndex, timeParts, text) ==
    IF Len(timeParts) < 2 THEN [keep |-> FALSE]
    ELSE [keep  |-> TRUE,
          index |-> IF timeLineIndex > 1
                    THEN BlockIndex(ParseInt(Trim(lines[timeLineIndex - 1])))
                    ELSE Zero,
          times |-> MapParseTime(timeParts),
          text  |-> text]

\* The loop body from the split of the timestamp line on.
BlockEntry(lines, timeLineIndex, timeParts, text) ==
    IF Len(timeParts) # 2 THEN [keep |-> FALSE]
    ELSE IF Len(text) = 0 THEN [keep |-> FALSE]
    ELSE [keep  |-> TRUE,
          index |-> IF timeLineIndex > 1
                    THEN BlockIndex(ParseInt(Trim(lines[timeLineIndex - 1])))
                    ELSE Zero,
          times |-> MapParseTime(timeParts),
          text  |-> text]

\* The loop body from the search of the timestamp line on; timeLineIndex is
\* 0 when no line holds the arrow.
BlockAt(lines, timeLineIndex) ==
    IF Len(lines) < 2 \/ timeLineIndex = 0 THEN [keep |-> FALSE]
    ELSE BlockEntry(lines, timeLineIndex, Split(lines[timeLineIndex], Arrow),
                    Trim(Join(SubSeq(lines, timeLineIndex + 1, Len(lines)), <<"\n">>)))

\* A loop body that takes for timestamp line the first line that holds the
\* arrow and splits into two tokens.
BlockOfLinesWellFormed(lines) ==
    BlockAt(lines, First({i \in 1 .. Len(lines) :
                            /\ Includes(lines[i], Arrow)
                            /\ Len(Split(lines[i], Arrow)) = 2}))

\* The loop body from the lines of the block on.
BlockOfLines(lines) ==
    BlockAt(lines, First({i \in 1 .. Len(lines) : Includes(lines[i], Arrow)}))

\* One iteration of the loop of parseSubtitles: the entry the block
\* contributes, or keep = FALSE when the loop continues without a push.
\* (Line numbers are 1-based here, 0-based in the source.)
ParseBlock(block) == BlockOfLines(Split(Trim(block), <<"\n">>))

Pushed(r) == r.keep

\* blocks.map(ParseBlock)
MapParseBlock(blocks) == [i \in 1 .. Len(blocks) |-> ParseBlock(blocks[i])]

\* Entries put at the front of the array instead of its end.
SubtitlesUnshifted(pushed) ==
    [i \in 1 .. Len(pushed) |->
        [index     |-> pushed[Len(pushed) + 1 - i].index,
         startTime |-> pushed[Len(pushed) + 1 - i].times[1],
         endTime   |-> pushed[Len(pushed) + 1 - i].times[2],
         text      |-> pushed[Len(pushed) + 1 - i].text]]

\* The entries pushed, in order.
Subtitles(pushed) ==
    [i \in 1 .. Len(pushed) |->
        [index     |-> pushed[i].index,
         startTime |-> pushed[i].times[1],
         endTime   |-> pushed[i].times[2],
         text      |-> pushed[i].text]]

\* parseSubtitles(subtitleText)
parseSubtitles(subtitleText) ==
    Subtitles(SelectSeq(MapParseBlock(SplitBlocks(NormalizeLineEndings(subtitleText))),
                        Pushed))

(***************************************************************************)
(* SubtitleOverlay: rendering                                              *)
(***************************************************************************)

\* The integer part of a magnitude below 2^31, as a natural number.
MagInt(A) ==
    Byte(A, 7) + 256 * Byte(A, 15) + 65536 * Byte(A, 23)
    + 16777216 * (Byte(A, 31) % 128)

\* Math.floor(x) of a number of magnitude below 2^31, as an integer.
Floor(x) ==
    IF ~x.neg THEN MagInt(x.bits)
    ELSE IF {k \in x.bits : k < 0} = {} THEN 0 - MagInt(x.bits)
    ELSE 0 - MagInt(x.bits) - 1

\* x % n for a natural n > 0 and x >= 0: exact.
FModNat(x, n) ==
    IF x.nan THEN NaN
    ELSE Num(FALSE, NatBits(MagInt(x.bits) % n) \cup {k \in x.bits : k < 0})

\* n.toString() for a natural number n.
RECURSIVE NatToString(_)
NatToString(n) ==
    IF n < 10 THEN <<Digits[n + 1]>> ELSE NatToString(n \div 10) \o <<Digits[(n % 10) + 1]>>

\* str.padStart(width, '0')
PadStart(str, width) ==
    [i \in 1 .. (width - Len(str)) |-> "0"] \o str

\* formatTime(seconds), for seconds >= 0
formatTime(seconds) ==
    LET hours            == Floor(FDivNat(seconds, 3600))
        minutes          == Floor(FDivNat(FModNat(seconds, 3600), 60))
        remainingSeconds == Floor(FModNat(seconds, 60))
        milliseconds     == Floor(FMulNat(FModNat(seconds, 1), 1000))
    IN  PadStart(NatToString(hours), 2) \o <<":">>
        \o PadStart(NatToString(minutes), 2) \o <<":">>
        \o PadStart(NatToString(remainingSeconds), 2) \o <<".">>
        \o PadStart(NatToString(milliseconds), 3)

\* The text '--:--' of the placeholder clock.
PlaceholderClock == <<"-", "-", ":", "-", "-">>

\* The markup of the placeholder: two placeholder clocks, nothing else.
\* The markup written to innerHTML is modelled by its variable parts.
PlaceholderHTML ==
    [time |-> PlaceholderClock, duration |-> PlaceholderClock,
     offset |-> NULL, subtitle |-> NULL]

\* Whether a duration is truthy: not null, not NaN and not 0.
Truthy(duration) == duration # NULL /\ ~duration.nan /\ duration # Zero

\* The sign with which the decimal spelling of a number begins, as the
\* template `${this.timeOffset}` spells it: "-" for a number below 0, nothing
\* for the others (NaN is spelled NaN, and -0 is spelled 0).
NumberSign(x) == IF ~x.nan /\ x.neg /\ x # FNeg(Zero) THEN "-" ELSE ""

\* A find that returns the last entry that matches instead of the first.
FindLast(subs, currentTime, timeOffset, i) ==
    Max({0} \cup {j \in i .. Len(subs) :
                    /\ FGeq(currentTime, FAdd(subs[j].startTime, timeOffset))
                    /\ FLess(currentTime, FAdd(subs[j].endTime, timeOffset))})

\* currentSubtitles.find(sub => currentTime >= sub.startTime + timeOffset &&
\*                              currentTime <  sub.endTime   + timeOffset)
\* as the index of the entry found, 0 when find returns undefined.
RECURSIVE FindCurrent(_, _, _, _)
FindCurrent(subs, currentTime, timeOffset, i) ==
    IF i > Len(subs) THEN 0
    ELSE IF /\ FGeq(currentTime, FAdd(subs[i].startTime, timeOffset))
            /\ FLess(currentTime, FAdd(subs[i].endTime, timeOffset))
         THEN i
    ELSE FindCurrent(subs, currentTime, timeOffset, i + 1)

(***************************************************************************)
(* Inputs of the model                                                     *)
(***************************************************************************)

\* Two overlapping entries: [0, 5) "A" and [2, 7) "B".
TextAB ==
    <<"1", "\n", "0", "0", ":", "0", "0", ":", "0", "0", ",", "0", "0",
      "0", " ", "-", "-", ">", " ", "0", "0", ":", "0", "0", ":", "0", "5",
      ",", "0", "0", "0", "\n", "A", "\n", "\n", "2", "\n", "0", "0", ":",
      "0", "0", ":", "0", "2", ",", "0", "0", "0", " ", "-", "-", ">", " ",
      "0", "0", ":", "0", "0", ":", "0", "7", ",", "0", "0", "0", "\n", "B">>

\* One entry [0, 1) "C", with no index line.
TextC ==
    <<"0", "0", ":", "0", "0", ":", "0", "0", ",", "0", "0", "0", " ", "-",
      "-", ">", " ", "0", "0", ":", "0", "0", ":", "0", "1", ",", "0", "0",
      "0", "\n", "C", "\n">>

\* The empty text, as clearSubtitles of the popup sends it.
TextEmpty == <<>>

\* The texts a loadSubtitles message carries.
Texts == {TextAB, TextEmpty}

\* The largest double below 1.
BelowOne == Num(FALSE, {k \in (0 - MantissaBits) .. -1 : TRUE})

Tenth == FDivNat(FromInt(1), 10)

\* The playback snapshots the platform reports: currentTime and duration,
\* each a number or null.
Snapshots ==
    {[currentTime |-> NULL, duration |-> NULL],
     [currentTime |-> BelowOne, duration |-> Zero],
     [currentTime |-> FromInt(2), duration |-> NULL],
     [currentTime |-> FromInt(3), duration |-> FromInt(10)]}

\* The offsets a setOffset message carries.
OffsetValues == {Tenth}

\* The largest magnitude up to which increaseOffset / decreaseOffset are
\* exercised.
MaxOffset == 1

DefaultFontSize == 28

DefaultFontColor == "#FFFFFF"

\* The appearances a setAppearance message or the storage carries.
Appearances == {[fontSize |-> 16, fontColor |-> "#FFFF00"]}

\* The control messages of the popup.
Requests ==
    {[action |-> a] : a \in {"getOffset", "increaseOffset", "decreaseOffset", "resetOffset"}}
    \cup {[action |-> "setOffset", offset |-> v] : v \in OffsetValues}
    \cup {[action |-> "loadSubtitles", subtitles |-> t] : t \in Texts}
    \cup {[action |-> "setAppearance", fontSize |-> a.fontSize, fontColor |-> a.fontColor] :
            a \in Appearances}

\* The contents of chrome.storage.local that the content script reads.
Storages ==
    {[loadedSubtitle |-> NULL, subtitleAppearance |-> NULL],
     [loadedSubtitle |-> [content |-> TextC],
      subtitleAppearance |-> [fontSize |-> 16, fontColor |-> "#FFFF00"]]}

\* The number of deferred retries that may be pending at once.
MaxRetries == 1

(***************************************************************************)
(* Inputs of the parser and of formatTime, each with the result that the   *)
(* steps of parseSubtitles, parseTime and formatTime give for it           *)
(***************************************************************************)

\* The lines that precede the timestamp line of a cue, with their line end,
\* and the index parseInt gives the cue: none, "3", "x" and "12abc".
IndexLines ==
    {[line |-> <<>>,
      value |-> 0],
     [line |-> <<"3", "\n">>,
      value |-> 3],
     [line |-> <<"x", "\n">>,
      value |-> 0],
     [line |-> <<"1", "2", "a", "b", "c", "\n">>,
      value |-> 12]}

\* Timestamp tokens with the seconds they stand for: H:M:S,mmm twice,
\* M:S.mmm, no milliseconds, one component, four components, components
\* above their usual range, position metadata after a space, and a
\* component that is no number.
TimeTokens ==
    {[token |-> <<"0", "0", ":", "0", "1", ":", "0", "2", ",", "5", "0", "0">>,
      value |-> FDivNat(FromInt(125), 2)],
     [token |-> <<"0", "0", ":", "0", "1", ":", "0", "5", ",", "0", "0", "0">>,
      value |-> FromInt(65)],
     [token |-> <<"0", "1", ":", "0", "2", ".", "2", "5", "0">>,
      value |-> FDivNat(FromInt(249), 4)],
     [token |-> <<"0", "0", ":", "0", "0", ":", "0", "7">>,
      value |-> FromInt(7)],
     [token |-> <<"5">>,
      value |-> Zero],
     [token |-> <<"1", ":", "2", ":", "3", ":", "4", ",", "5", "0", "0">>,
      value |-> FDivNat(FromInt(1), 2)],
     [token |-> <<"9", "9", ":", "9", "9", ":", "9", "9", ",", "9", "9", "9">>,
      value |-> FAdd(FromInt(362439), FDivNat(FromInt(999), 1000))],
     [token |-> <<"0", "0", ":", "0", "0", ":", "0", "9", ",", "0", "0", "0",
                  " ", "X", "1", ":", "1", "0", "0">>,
      value |-> FromInt(9)],
     [token |-> <<"a", "a", ":", "0", "0", ":", "0", "1", ",", "0", "0", "0">>,
      value |-> NaN]}

\* The text of one cue: the index line, the timestamp line and the text "A".
Cue(il, s, e) == il.line \o s.token \o Arrow \o e.token \o <<"\n", "A">>

CueTexts == {Cue(il, s, e) : il \in IndexLines, s \in TimeTokens, e \in TimeTokens}

\* Blocks with the entries they contribute: [5, 7) "A" with index 1,
\* [0, 2) "B" with index 2, [1, 6) with two lines of text and no index
\* line, and a block without timestamp line.
Blocks ==
    {[src |-> <<"1", "\n", "0", "0", ":", "0", "0", ":", "0", "5", ",", "0",
                "0", "0", " ", "-", "-", ">", " ", "0", "0", ":", "0", "0",
                ":", "0", "7", ",", "0", "0", "0", "\n", "A">>,
      entries |-> <<[index |-> FromInt(1), startTime |-> FromInt(5),
                    endTime |-> FromInt(7), text |-> <<"A">>]>>],
     [src |-> <<"2", "\n", "0", "0", ":", "0", "0", ":", "0", "0", ",", "0",
                "0", "0", " ", "-", "-", ">", " ", "0", "0", ":", "0", "0",
                ":", "0", "2", ",", "0", "0", "0", "\n", "B">>,
      entries |-> <<[index |-> FromInt(2), startTime |-> FromInt(0),
                    endTime |-> FromInt(2), text |-> <<"B">>]>>],
     [src |-> <<"0", "0", ":", "0", "0", ":", "0", "1", ",", "0", "0", "0",
                " ", "-", "-", ">", " ", "0", "0", ":", "0", "0", ":", "0",
                "6", ",", "0", "0", "0", "\n", "C", "\n", "D">>,
      entries |-> <<[index |-> FromInt(0), startTime |-> FromInt(1),
                    endTime |-> FromInt(6), text |-> <<"C", "\n", "D">>]>>],
     [src |-> <<"h", "e", "l", "l", "o", "\n", "w", "o", "r", "l", "d">>,
      entries |-> <<>>]}

\* The largest number of blocks of a text.
MaxBlocks == 3

\* The sequences of one to MaxBlocks blocks.
BlockSeqs == UNION {[1 .. n -> Blocks] : n \in 1 .. MaxBlocks}

\* The text of a sequence of blocks, an empty line between two of them.
RECURSIVE JoinBlocks(_)
JoinBlocks(bs) ==
    IF Len(bs) = 1 THEN bs[1].src
    ELSE bs[1].src \o <<"\n", "\n">> \o JoinBlocks(Tail(bs))

\* The entries of a sequence of blocks, block after block.
RECURSIVE JoinEntries(_)
JoinEntries(bs) ==
    IF Len(bs) = 0 THEN <<>> ELSE bs[1].entries \o JoinEntries(Tail(bs))

BlockTexts == {JoinBlocks(bs) : bs \in BlockSeqs}

\* Texts without a block that has a timestamp line of two tokens followed
\* by text: the empty text, one line, empty lines only, blocks without
\* arrow, a timestamp line alone, a timestamp line with an index and no
\* text, the same followed by a block whose arrow has no spaces around it,
\* and a timestamp line of three tokens.
MalformedTexts ==
    {<<>>,
     <<"h", "e", "l", "l", "o">>,
     <<"\n", "\n", "\n">>,
     <<"h", "e", "l", "l", "o", "\n", "w", "o", "r", "l", "d", "\n", "\n",
       "b", "y", "e">>,
     <<"0", "0", ":", "0", "0", ":", "0", "1", ",", "0", "0", "0", " ", "-",
       "-", ">", " ", "0", "0", ":", "0", "0", ":", "0", "2", ",", "0", "0",
       "0">>,
     <<"1", "\n", "0", "0", ":", "0", "0", ":", "0", "1", ",", "0", "0", "0",
       " ", "-", "-", ">", " ", "0", "0", ":", "0", "0", ":", "0", "2", ",",
       "0", "0", "0">>,
     <<"1", "\n", "0", "0", ":", "0", "0", ":", "0", "1", ",", "0", "0", "0",
       " ", "-", "-", ">", " ", "0", "0", ":", "0", "0", ":", "0", "2", ",",
       "0", "0", "0", "\n", " ", "\n", "\n", "2", "\n", "0", "0", ":", "0",
       "0", ":", "0", "3", ",", "0", "0", "0", "-", "-", ">", "0", "0", ":",
       "0", "0", ":", "0", "4", ",", "0", "0", "0", "\n", "A">>,
     <<"0", "0", ":", "0", "0", ":", "0", "1", ",", "0", "0", "0", " ", "-",
       "-", ">", " ", "0", "0", ":", "0", "0", ":", "0", "2", ",", "0", "0",
       "0", " ", "-", "-", ">", " ", "0", "0", ":", "0", "0", ":", "0", "3",
       ",", "0", "0", "0", "\n", "A">>}

\* Blocks for the rules by which a block is kept or discarded, with the
\* entries they contribute: a single line, a timestamp line alone, three
\* lines without arrow, an arrow without the spaces around it, a first
\* arrow line of three tokens followed by a timestamp line of two, a
\* timestamp line that is the last line, and a timestamp line followed by
\* a second one, which is text.
RuleBlocks ==
    {[src |-> <<"l", "o", "n", "e", "l", "y">>,
      entries |-> <<>>],
     [src |-> <<"0", "0", ":", "0", "0", ":", "0", "1", ",", "0", "0", "0",
                 " ", "-", "-", ">", " ", "0", "0", ":", "0", "0", ":", "0",
                 "2", ",", "0", "0", "0">>,
      entries |-> <<>>],
     [src |-> <<"x", "\n", "y", "\n", "z">>,
      entries |-> <<>>],
     [src |-> <<"1", "\n", "0", "0", ":", "0", "0", ":", "0", "1", ",", "0",
                 "0", "0", "-", "-", ">", "0", "0", ":", "0", "0", ":", "0",
                 "2", ",", "0", "0", "0", "\n", "A">>,
      entries |-> <<>>],
     [src |-> <<"1", "\n", "0", "0", ":", "0", "0", ":", "0", "1", ",", "0",
                 "0", "0", " ", "-", "-", ">", " ", "0", "0", ":", "0", "0",
                 ":", "0", "2", ",", "0", "0", "0", " ", "-", "-", ">", " ",
                 "0", "0", ":", "0", "0", ":", "0", "3", ",", "0", "0", "0",
                 "\n", "0", "0", ":", "0", "0", ":", "0", "4", ",", "0", "0",
                 "0", " ", "-", "-", ">", " ", "0", "0", ":", "0", "0", ":",
                 "0", "5", ",", "0", "0", "0", "\n", "A">>,
      entries |-> <<>>],
     [src |-> <<"1", "\n", "0", "0", ":", "0", "0", ":", "0", "1", ",", "0",
                 "0", "0", " ", "-", "-", ">", " ", "0", "0", ":", "0", "0",
                 ":", "0", "2", ",", "0", "0", "0">>,
      entries |-> <<>>],
     [src |-> <<"0", "0", ":", "0", "0", ":", "0", "1", ",", "0", "0", "0",
                 " ", "-", "-", ">", " ", "0", "0", ":", "0", "0", ":", "0",
                 "2", ",", "0", "0", "0", "\n", "0", "0", ":", "0", "0", ":",
                 "0", "4", ",", "0", "0", "0", " ", "-", "-", ">", " ", "0",
                 "0", ":", "0", "0", ":", "0", "5", ",", "0", "0", "0", "\n",
                 "A">>,
      entries |-> <<[index |-> FromInt(0), startTime |-> FromInt(1),
                    endTime |-> FromInt(2),
                    text |-> <<"0", "0", ":", "0", "0", ":", "0", "4", ",",
                              "0", "0", "0", " ", "-", "-", ">", " ", "0",
                              "0", ":", "0", "0", ":", "0", "5", ",", "0",
                              "0", "0", "\n", "A">>]>>]}

\* A block of the rules alone, and between two blocks that contribute an
\* entry each.
RuleSeqs ==
    {<<r>> : r \in RuleBlocks}
    \cup {<<a, r, b>> : a \in {x \in Blocks : x.entries # <<>>},
                       r \in RuleBlocks,
                       b \in {x \in Blocks : x.entries # <<>>}}

RuleTexts == {JoinBlocks(bs) : bs \in RuleSeqs}

\* The texts the parser is applied to.
ParserTexts == CueTexts \cup BlockTexts \cup MalformedTexts \cup RuleTexts

\* The stride and the number of the times formatTime is applied to: the
\* times of m * FormatStride thousandths of a second for m up to
\* MaxFormatSteps, 1.001 seconds and 125.4 seconds.
FormatStride == 90001

MaxFormatSteps == 119

FormatMillis == {m * FormatStride : m \in 0 .. MaxFormatSteps} \cup {1001, 125400}

\* The time of n thousandths of a second, as the platform reports it: the
\* double next to n / 1000.
Millis(n) == FDivNat(FromInt(n), 1000)

\* The times formatTime is applied to.
FormatTimes == {Millis(n) : n \in FormatMillis}

(***************************************************************************)
(* updateDisplay and loadSubtitles on the inputs above                      *)
(***************************************************************************)

\* The times the platform reports.
SnapshotTimes ==
    ({s.currentTime : s \in Snapshots} \cup {s.duration : s \in Snapshots}) \ {NULL}

\* formatTime, tabulated over the times the platform reports.
FormatTable == [t \in SnapshotTimes \cup FormatTimes |-> formatTime(t)]

\* this.formatTime(t) as updateDisplay calls it.
Clock(t) == FormatTable[t]

\* The texts that reach loadSubtitles, from a message or from the storage.
LoadedTexts ==
    Texts \cup {st.loadedSubtitle.content : st \in {x \in Storages : x.loadedSubtitle # NULL}}

\* parseSubtitles, tabulated over the texts that reach loadSubtitles.
ParseTable == [t \in LoadedTexts \cup ParserTexts |-> parseSubtitles(t)]

\* this.parseSubtitles(text) as loadSubtitles calls it.
Parsed(text) == ParseTable[text]

\* A render that, without a playback time, still shows the first entry and
\* the offset indicator under the placeholder clock.
RenderWithoutTime(subs, timeOffset, fontSize, fontColor, snap) ==
    LET found == IF Len(subs) = 0 THEN 0
                 ELSE IF snap.currentTime = NULL THEN 1
                 ELSE FindCurrent(subs, snap.currentTime, timeOffset, 1)
    IN  [time     |-> IF snap.currentTime = NULL THEN PlaceholderClock
                      ELSE Clock(snap.currentTime),
         duration |-> IF snap.currentTime # NULL /\ Truthy(snap.duration)
                      THEN Clock(snap.duration) ELSE PlaceholderClock,
         offset   |-> IF timeOffset # Zero
                      THEN [prefix |-> IF FGreater(timeOffset, Zero) THEN "+" ELSE "",
                            value  |-> timeOffset]
                      ELSE NULL,
         subtitle |-> IF found # 0
                      THEN [fontSize |-> fontSize, fontColor |-> fontColor,
                            text |-> subs[found].text]
                      ELSE NULL]

\* A render whose offset indicator always carries the prefix "+".
RenderAlwaysPlus(subs, timeOffset, fontSize, fontColor, snap) ==
    IF snap.currentTime = NULL THEN PlaceholderHTML
    ELSE LET found == IF Len(subs) > 0
                      THEN FindCurrent(subs, snap.currentTime, timeOffset, 1) ELSE 0
         IN  [time     |-> Clock(snap.currentTime),
              duration |-> IF Truthy(snap.duration) THEN Clock(snap.duration)
                           ELSE PlaceholderClock,
              offset   |-> IF timeOffset # Zero
                           THEN [prefix |-> "+", value |-> timeOffset]
                           ELSE NULL,
              subtitle |-> IF found # 0
                           THEN [fontSize |-> fontSize, fontColor |-> fontColor,
                                 text |-> subs[found].text]
                           ELSE NULL]

\* The markup updateDisplay writes to overlay.innerHTML, for the snapshot
\* (getCurrentTime(), getDuration()) it has read.  The offset indicator is
\* the sign prefix and the number whose decimal spelling follows it.
Render(subs, timeOffset, fontSize, fontColor, snap) ==
    IF snap.currentTime = NULL THEN PlaceholderHTML
    ELSE LET found == IF Len(subs) > 0
                      THEN FindCurrent(subs, snap.currentTime, timeOffset, 1) ELSE 0
         IN  [time     |-> Clock(snap.currentTime),
              duration |-> IF Truthy(snap.duration) THEN Clock(snap.duration)
                           ELSE PlaceholderClock,
              offset   |-> IF timeOffset # Zero
                           THEN [prefix |-> IF FGreater(timeOffset, Zero) THEN "+" ELSE "",
                                 value  |-> timeOffset]
                           ELSE NULL,
              subtitle |-> IF found # 0
                           THEN [fontSize |-> fontSize, fontColor |-> fontColor,
                                 text |-> subs[found].text]
                           ELSE NULL]

(***************************************************************************)
(* State                                                                   *)
(***************************************************************************)

VARIABLES
    subtitleOverlay,   \* content.ts: the overlay instance, NULL until constructed
    platform,          \* SubtitleOverlay.platform: NULL or the detected platform
    overlay,           \* SubtitleOverlay.overlay: NULL or the element on the page
    currentSubtitles,  \* SubtitleOverlay.currentSubtitles
    timeOffset,        \* SubtitleOverlay.timeOffset
    fontSize,          \* SubtitleOverlay.fontSize
    fontColor,         \* SubtitleOverlay.fontColor
    video,             \* the platform: what getCurrentTime() and getDuration() return
    initTimer,         \* content.ts: the setTimeout(..., 0) of the construction is pending
    storageRead,       \* content.ts: the chrome.storage.local.get callback is pending
    retries,           \* content.ts: the pending setTimeout(..., 100) retries, oldest first
    storage,           \* chrome.storage.local
    request,           \* the control message delivered last, NULL when none yet
    response,          \* what sendResponse was called with for it, NULL when not called
    videoPlayerFound,  \* platform.videoPlayerFound
    listeners,         \* the callbacks passed to platform.setupVideoListeners so far
    popup,             \* popup.ts: currentOffset, isConnected, currentFontSize, ...
    popupReads,        \* popup.ts: the chrome.storage.local.get callbacks pending
    reader,            \* popup.ts: the file the FileReader is reading, NULL when none
    sent,              \* sendMessage: the messages on their way, with their callbacks
    replies,           \* sendMessage: the responses on their way back to the callbacks
    clicked            \* history: the sum of the deltas clicked (offset: tenths, size: px)

vars ==
    <<subtitleOverlay, platform, overlay, currentSubtitles, timeOffset, fontSize,
      fontColor, video, initTimer, storageRead, retries, storage, request, response,
      videoPlayerFound, listeners, popup, popupReads, reader, sent, replies, clicked>>

\* The fields of the platform that the overlay writes.
adapter == <<videoPlayerFound, listeners>>

\* The state of the popup and of its messages.
popupSide == <<popup, popupReads, reader, sent, replies, clicked>>

\* The module-level state of popup.ts as its initializers leave it.
PopupLets ==
    [currentOffset |-> Zero, isConnected |-> FALSE, currentFontSize |-> 28,
     currentFontColor |-> "#FFFFFF"]

\* The popup is not open: nothing of it is pending.
PopupClosed ==
    /\ popup = PopupLets
    /\ popupReads = {}
    /\ reader = NULL
    /\ sent = <<>>
    /\ replies = <<>>
    /\ clicked = 0

overlayFields == <<currentSubtitles, timeOffset, fontSize, fontColor>>

timers == <<initTimer, storageRead, retries>>

\* The state after content.ts has run: the construction is scheduled and the
\* message listener registered.  The fields of the overlay hold their
\* initializers from the construction on.
Init ==
    /\ subtitleOverlay = NULL
    /\ platform = NULL
    /\ overlay = NULL
    /\ currentSubtitles = <<>>
    /\ timeOffset = Zero
    /\ fontSize = DefaultFontSize
    /\ fontColor = DefaultFontColor
    /\ video = [currentTime |-> NULL, duration |-> NULL]
    /\ initTimer = TRUE
    /\ storageRead = FALSE
    /\ retries = <<>>
    /\ storage \in Storages
    /\ request = NULL
    /\ response = NULL
    /\ videoPlayerFound = FALSE
    /\ listeners = 0
    /\ PopupClosed

(***************************************************************************)
(* SubtitleOverlay: operations                                             *)
(***************************************************************************)

\* An updateDisplay that makes a new element when there is none.
updateDisplayRecreates(el, subs, offset, size, color) ==
    overlay' = IF platform = NULL THEN el
               ELSE [innerHTML |-> Render(subs, offset, size, color, video),
                     style |-> IF el = NULL THEN NULL ELSE el.style]

\* updateDisplay() on the element el, with the fields as given: nothing
\* without a platform or an element, else the markup for the snapshot that
\* getCurrentTime() and getDuration() return.
updateDisplay(el, subs, offset, size, color) ==
    overlay' = IF platform = NULL \/ el = NULL THEN el
               ELSE [el EXCEPT !.innerHTML = Render(subs, offset, size, color, video)]

\* applyAppearance(): the two custom properties on the element's style.
applyAppearance(el, size, color) ==
    IF el = NULL THEN el
    ELSE [el EXCEPT !.style = [fontSize |-> size, fontColor |-> color]]

\* The value increaseOffset() leaves in timeOffset.
increased(offset) == FAdd(offset, One)

\* The value decreaseOffset() leaves in timeOffset.
decreased(offset) == FSub(offset, One)

\* A loadSubtitles that adds the parsed entries to the ones already held.
loadSubtitlesAppend(subtitleText) ==
    /\ currentSubtitles' = currentSubtitles \o Parsed(subtitleText)
    /\ updateDisplay(overlay, currentSubtitles', timeOffset, fontSize, fontColor)
    /\ UNCHANGED <<video, timeOffset, fontSize, fontColor>>

\* A loadSubtitles that returns early on an empty text.
loadSubtitlesUnlessEmpty(subtitleText) ==
    /\ currentSubtitles' = IF Len(subtitleText) = 0 THEN currentSubtitles
                           ELSE Parsed(subtitleText)
    /\ updateDisplay(overlay, currentSubtitles', timeOffset, fontSize, fontColor)
    /\ UNCHANGED <<video, timeOffset, fontSize, fontColor>>

loadSubtitles(subtitleText) ==
    /\ currentSubtitles' = Parsed(subtitleText)
    /\ updateDisplay(overlay, currentSubtitles', timeOffset, fontSize, fontColor)
    /\ UNCHANGED <<video, timeOffset, fontSize, fontColor>>

increaseOffset ==
    /\ timeOffset' = increased(timeOffset)
    /\ updateDisplay(overlay, currentSubtitles, timeOffset', fontSize, fontColor)
    /\ UNCHANGED <<video, currentSubtitles, fontSize, fontColor>>

\* A decreaseOffset that also drops the entries and restores the default
\* font size.
decreaseOffsetResets ==
    /\ timeOffset' = decreased(timeOffset)
    /\ currentSubtitles' = <<>>
    /\ fontSize' = DefaultFontSize
    /\ updateDisplay(overlay, currentSubtitles', timeOffset', fontSize', fontColor)
    /\ UNCHANGED <<video, fontColor>>

decreaseOffset ==
    /\ timeOffset' = decreased(timeOffset)
    /\ updateDisplay(overlay, currentSubtitles, timeOffset', fontSize, fontColor)
    /\ UNCHANGED <<video, currentSubtitles, fontSize, fontColor>>

\* A resetOffset that re-renders without clearing the offset.
resetOffsetStale ==
    /\ timeOffset' = timeOffset
    /\ updateDisplay(overlay, currentSubtitles, timeOffset', fontSize, fontColor)
    /\ UNCHANGED <<video, currentSubtitles, fontSize, fontColor>>

resetOffset ==
    /\ timeOffset' = Zero
    /\ updateDisplay(overlay, currentSubtitles, timeOffset', fontSize, fontColor)
    /\ UNCHANGED <<video, currentSubtitles, fontSize, fontColor>>

\* A setOffset that shifts the offset by its argument.
setOffsetRelative(offset) ==
    /\ timeOffset' = FAdd(timeOffset, offset)
    /\ updateDisplay(overlay, currentSubtitles, timeOffset', fontSize, fontColor)
    /\ UNCHANGED <<video, currentSubtitles, fontSize, fontColor>>

setOffset(offset) ==
    /\ timeOffset' = offset
    /\ updateDisplay(overlay, currentSubtitles, timeOffset', fontSize, fontColor)
    /\ UNCHANGED <<video, currentSubtitles, fontSize, fontColor>>

getOffset == timeOffset

\* A setAppearance that sets the style properties and leaves the markup.
setAppearanceUnrendered(size, color) ==
    /\ fontSize' = size
    /\ fontColor' = color
    /\ overlay' = applyAppearance(overlay, size, color)
    /\ UNCHANGED <<video, currentSubtitles, timeOffset>>

setAppearance(size, color) ==
    /\ fontSize' = size
    /\ fontColor' = color
    /\ updateDisplay(applyAppearance(overlay, size, color), currentSubtitles, timeOffset,
                     size, color)
    /\ UNCHANGED <<video, currentSubtitles, timeOffset>>

(***************************************************************************)
(* content.ts: construction and priming                                    *)
(***************************************************************************)

\* The platform PlatformDetector.detect() returns when the site is supported.
PLATFORM == [name |-> "platform"]

\* The instance new SubtitleOverlay() returns.
OVERLAY == [instance |-> "SubtitleOverlay"]

\* A construction that makes the element whether or not a platform is
\* detected.
ConstructAlwaysSurface ==
    /\ initTimer
    /\ initTimer' = FALSE
    /\ subtitleOverlay' = OVERLAY
    /\ \E detected \in BOOLEAN :
          /\ platform' = IF detected THEN PLATFORM ELSE NULL
          /\ overlay' = [innerHTML |-> PlaceholderHTML, style |-> NULL]
          /\ listeners' = IF detected THEN 1 ELSE 0
    /\ storageRead' = TRUE
    /\ UNCHANGED <<overlayFields, video, retries, storage, request, response,
                   videoPlayerFound, popupSide>>

\* The setTimeout(..., 0) callback: new SubtitleOverlay(), i.e. initialize()
\* (platform detection, the element with the placeholder markup, the tick
\* subscription) and setupMessageListener(), then the storage read is issued.
Construct ==
    /\ initTimer
    /\ initTimer' = FALSE
    /\ subtitleOverlay' = OVERLAY
    /\ \E detected \in BOOLEAN :
          /\ platform' = IF detected THEN PLATFORM ELSE NULL
          /\ overlay' = IF detected
                        THEN [innerHTML |-> PlaceholderHTML, style |-> NULL]
                        ELSE NULL
          /\ listeners' = IF detected THEN 1 ELSE 0
    /\ storageRead' = TRUE
    /\ UNCHANGED <<overlayFields, video, retries, storage, request, response,
                   videoPlayerFound, popupSide>>

\* A storage callback that loads the persisted content and leaves the
\* persisted appearance aside.
StorageLoadedTextOnly ==
    /\ storageRead
    /\ storageRead' = FALSE
    /\ LET subtitleData == storage.loadedSubtitle
           load == subtitleData # NULL /\ Len(subtitleData.content) > 0
                   /\ subtitleOverlay # NULL
           subs == IF load THEN Parsed(subtitleData.content) ELSE currentSubtitles
       IN  /\ currentSubtitles' = subs
           /\ IF load THEN updateDisplay(overlay, subs, timeOffset, fontSize, fontColor)
              ELSE UNCHANGED overlay
    /\ UNCHANGED <<subtitleOverlay, platform, timeOffset, fontSize, fontColor, video,
                   initTimer, retries, storage, request, response, adapter,
                   popupSide>>

\* The chrome.storage.local.get callback: loadSubtitles of the persisted
\* content when there is one, then setAppearance of the persisted appearance
\* when there is one.
StorageLoaded ==
    /\ storageRead
    /\ storageRead' = FALSE
    /\ LET subtitleData   == storage.loadedSubtitle
           appearanceData == storage.subtitleAppearance
           load  == subtitleData # NULL /\ Len(subtitleData.content) > 0
                    /\ subtitleOverlay # NULL
           style == appearanceData # NULL /\ subtitleOverlay # NULL
           subs  == IF load THEN Parsed(subtitleData.content) ELSE currentSubtitles
           size  == IF style THEN appearanceData.fontSize ELSE fontSize
           color == IF style THEN appearanceData.fontColor ELSE fontColor
       IN  /\ currentSubtitles' = subs
           /\ fontSize' = size
           /\ fontColor' = color
           /\ IF load \/ style
              THEN updateDisplay(IF style THEN applyAppearance(overlay, size, color)
                                 ELSE overlay,
                                 subs, timeOffset, size, color)
              ELSE UNCHANGED overlay
    /\ UNCHANGED <<subtitleOverlay, platform, timeOffset, video, initTimer, retries,
                   storage, request, response, adapter, popupSide>>

(***************************************************************************)
(* Control messages: the listener of content.ts, then, once the overlay    *)
(* is constructed, the listener of SubtitleOverlay.setupMessageListener    *)
(***************************************************************************)

\* What the runtime leaves untouched when a message is dispatched.
messageFrame ==
    <<subtitleOverlay, platform, initTimer, storageRead, storage, adapter>>

\* A message that no listener answers and that changes nothing.
Unanswered ==
    /\ response' = NULL
    /\ UNCHANGED <<overlay, overlayFields, video, retries>>

\* action 'loadSubtitles' (content.ts)
OnLoadSubtitles(req) ==
    /\ req.action = "loadSubtitles"
    /\ subtitleOverlay = NULL => Len(retries) < MaxRetries
    /\ request' = req
    /\ IF subtitleOverlay # NULL
       THEN loadSubtitles(req.subtitles) /\ UNCHANGED retries
       ELSE /\ retries' = Append(retries, req)
            /\ UNCHANGED <<overlay, overlayFields, video>>
    /\ response' = [success |-> TRUE]
    /\ UNCHANGED messageFrame

\* action 'setAppearance' (content.ts)
OnSetAppearance(req) ==
    /\ req.action = "setAppearance"
    /\ subtitleOverlay = NULL => Len(retries) < MaxRetries
    /\ request' = req
    /\ IF subtitleOverlay # NULL
       THEN setAppearance(req.fontSize, req.fontColor) /\ UNCHANGED retries
       ELSE /\ retries' = Append(retries, req)
            /\ UNCHANGED <<overlay, overlayFields, video>>
    /\ response' = [success |-> TRUE]
    /\ UNCHANGED messageFrame

\* action 'getOffset' (SubtitleOverlay)
OnGetOffset(req) ==
    /\ req.action = "getOffset"
    /\ request' = req
    /\ IF subtitleOverlay # NULL
       THEN /\ response' = [offset |-> getOffset]
            /\ UNCHANGED <<overlay, overlayFields, video, retries>>
       ELSE Unanswered
    /\ UNCHANGED messageFrame

\* action 'setOffset' (SubtitleOverlay)
OnSetOffset(req) ==
    /\ req.action = "setOffset"
    /\ request' = req
    /\ IF subtitleOverlay # NULL
       THEN /\ setOffset(req.offset)
            /\ response' = [success |-> TRUE, offset |-> timeOffset']
            /\ UNCHANGED retries
       ELSE Unanswered
    /\ UNCHANGED messageFrame

\* action 'increaseOffset' (SubtitleOverlay)
OnIncreaseOffset(req) ==
    /\ req.action = "increaseOffset"
    /\ FLess(timeOffset, FromInt(MaxOffset))
    /\ request' = req
    /\ IF subtitleOverlay # NULL
       THEN /\ increaseOffset
            /\ response' = [success |-> TRUE, offset |-> timeOffset']
            /\ UNCHANGED retries
       ELSE Unanswered
    /\ UNCHANGED messageFrame

\* action 'decreaseOffset' (SubtitleOverlay)
OnDecreaseOffset(req) ==
    /\ req.action = "decreaseOffset"
    /\ FGreater(timeOffset, FromInt(0 - MaxOffset))
    /\ request' = req
    /\ IF subtitleOverlay # NULL
       THEN /\ decreaseOffset
            /\ response' = [success |-> TRUE, offset |-> timeOffset']
            /\ UNCHANGED retries
       ELSE Unanswered
    /\ UNCHANGED messageFrame

\* action 'resetOffset' (SubtitleOverlay)
OnResetOffset(req) ==
    /\ req.action = "resetOffset"
    /\ request' = req
    /\ IF subtitleOverlay # NULL
       THEN /\ resetOffset
            /\ response' = [success |-> TRUE, offset |-> timeOffset']
            /\ UNCHANGED retries
       ELSE Unanswered
    /\ UNCHANGED messageFrame

\* A retry that fires and finds nothing to do.
RetryDrops ==
    /\ retries # <<>>
    /\ ~initTimer
    /\ retries' = Tail(retries)
    /\ UNCHANGED <<subtitleOverlay, platform, overlay, overlayFields, video,
                   initTimer, storageRead, storage, request, response, adapter,
                   popupSide>>

\* The oldest setTimeout(..., 100) retry fires.  Timers fire in the order of
\* their deadlines, so the construction, scheduled first with delay 0, has
\* run before any retry does.
Retry ==
    /\ retries # <<>>
    /\ ~initTimer
    /\ retries' = Tail(retries)
    /\ LET req == Head(retries)
       IN  IF subtitleOverlay = NULL THEN UNCHANGED <<overlay, overlayFields, video>>
           ELSE IF req.action = "loadSubtitles" THEN loadSubtitles(req.subtitles)
           ELSE setAppearance(req.fontSize, req.fontColor)
    /\ UNCHANGED <<subtitleOverlay, platform, initTimer, storageRead, storage,
                   request, response, adapter, popupSide>>

(***************************************************************************)
(* The platform's tick, and cleanup                                        *)
(***************************************************************************)

\* A tick whose render adds the subtitle to the one already on the surface
\* (innerHTML += instead of innerHTML =).
TickAppends ==
    /\ platform # NULL
    /\ \E snap \in Snapshots :
          /\ video' = snap
          /\ overlay' =
                IF overlay = NULL THEN NULL
                ELSE LET old == overlay.innerHTML.subtitle
                         new == Render(currentSubtitles, timeOffset, fontSize, fontColor,
                                       snap)
                     IN  [overlay EXCEPT !.innerHTML =
                            IF old # NULL /\ new.subtitle # NULL
                            THEN [new EXCEPT !.subtitle.text = old.text \o @]
                            ELSE new]
    /\ UNCHANGED <<subtitleOverlay, platform, overlayFields, timers, storage,
                   request, response, adapter, popupSide>>

\* The player's time moves on and the platform calls the callback given to
\* setupVideoListeners: updateDisplay().  (The player's time is read by
\* updateDisplay only, so that a change of it without a tick is observed as a
\* tick and then the read.)
Tick ==
    /\ platform # NULL
    /\ \E snap \in Snapshots :
          /\ video' = snap
          /\ overlay' = IF overlay = NULL THEN NULL
                        ELSE [overlay EXCEPT !.innerHTML =
                                Render(currentSubtitles, timeOffset, fontSize, fontColor,
                                       snap)]
    /\ UNCHANGED <<subtitleOverlay, platform, overlayFields, timers, storage,
                   request, response, adapter, popupSide>>

\* this.setupVideoListeners(), player telling whether platform.videoPlayer is
\* set: nothing without a player, else one more callback is passed to
\* platform.setupVideoListeners and the display is updated.
setupVideoListeners(player) ==
    IF ~player THEN UNCHANGED <<listeners, overlay>>
    ELSE /\ listeners' = listeners + 1
         /\ updateDisplay(overlay, currentSubtitles, timeOffset, fontSize, fontColor)

\* An observer callback that does not look at platform.videoPlayerFound.
ObserverFiresUnguarded(player) ==
    /\ platform # NULL
    /\ IF player
       THEN videoPlayerFound' = TRUE /\ setupVideoListeners(player)
       ELSE UNCHANGED <<videoPlayerFound, listeners, overlay>>
    /\ UNCHANGED <<subtitleOverlay, platform, overlayFields, video, timers, storage,
                   request, response, popupSide>>

\* The platform calls the callback given to observeVideoPlayer, player
\* telling whether platform.videoPlayer is set at that moment.  (The
\* platform adapters are not part of the sources: videoPlayerFound is taken
\* to be false on a new platform object and written by this callback only.)
ObserverFires(player) ==
    /\ platform # NULL
    /\ IF player /\ ~videoPlayerFound
       THEN videoPlayerFound' = TRUE /\ setupVideoListeners(player)
       ELSE UNCHANGED <<videoPlayerFound, listeners, overlay>>
    /\ UNCHANGED <<subtitleOverlay, platform, overlayFields, video, timers, storage,
                   request, response, popupSide>>

\* cleanup(): the platform detaches and the element leaves the page.
cleanup ==
    /\ subtitleOverlay # NULL
    /\ overlay # NULL
    /\ overlay' = NULL
    /\ UNCHANGED <<subtitleOverlay, platform, overlayFields, video, timers, storage,
                   request, response, adapter, popupSide>>

Next ==
    \/ Construct
    \/ StorageLoaded
    \/ \E req \in Requests : OnLoadSubtitles(req) /\ UNCHANGED popupSide
    \/ \E req \in Requests : OnSetAppearance(req) /\ UNCHANGED popupSide
    \/ \E req \in Requests : OnGetOffset(req) /\ UNCHANGED popupSide
    \/ \E req \in Requests : OnSetOffset(req) /\ UNCHANGED popupSide
    \/ \E req \in Requests : OnIncreaseOffset(req) /\ UNCHANGED popupSide
    \/ \E req \in Requests : OnDecreaseOffset(req) /\ UNCHANGED popupSide
    \/ \E req \in Requests : OnResetOffset(req) /\ UNCHANGED popupSide
    \/ Retry
    \/ Tick
    \/ \E player \in BOOLEAN : ObserverFires(player)
    \/ cleanup

Spec == Init /\ [][Next]_vars

\* The oldest retry leaves the timer queue: of the steps of Next, those of
\* Retry, which is enabled exactly when this is.
RetryFires ==
    /\ retries # <<>>
    /\ ~initTimer
    /\ retries' = Tail(retries)

\* Timers fire: the construction scheduled with delay 0 runs, and so does
\* every retry scheduled with delay 100.
FairSpec == Spec /\ WF_vars(Construct) /\ WF_retries(RetryFires)

(***************************************************************************)
(* The parser on its inputs                                                *)
(***************************************************************************)

\* The state in which the overlay has been constructed on a supported site
\* with nothing in the storage, and the retry of a loadSubtitles message that
\* was deferred before is pending: the message carries one of the parser's
\* texts.
ParseInit ==
    /\ subtitleOverlay = OVERLAY
    /\ platform = PLATFORM
    /\ overlay = [innerHTML |-> PlaceholderHTML, style |-> NULL]
    /\ currentSubtitles = <<>>
    /\ timeOffset = Zero
    /\ fontSize = DefaultFontSize
    /\ fontColor = DefaultFontColor
    /\ video = [currentTime |-> NULL, duration |-> NULL]
    /\ initTimer = FALSE
    /\ storageRead = FALSE
    /\ storage = [loadedSubtitle |-> NULL, subtitleAppearance |-> NULL]
    /\ request \in {[action |-> "loadSubtitles", subtitles |-> t] : t \in ParserTexts}
    /\ retries = <<request>>
    /\ response = [success |-> TRUE]
    /\ videoPlayerFound = FALSE
    /\ listeners = 1
    /\ PopupClosed

\* The retry fires and loads the text.
ParseSpec == ParseInit /\ [][Retry]_vars

(***************************************************************************)
(* formatTime on its inputs                                                *)
(***************************************************************************)

\* The state in which the overlay has been constructed on a supported site
\* with nothing in the storage, a tick has rendered at one of the times of
\* formatTime, and the retry of a setAppearance message that was deferred
\* before is pending.
FormatInit ==
    /\ subtitleOverlay = OVERLAY
    /\ platform = PLATFORM
    /\ video \in {[currentTime |-> t, duration |-> NULL] : t \in FormatTimes}
    /\ overlay = [innerHTML |-> Render(<<>>, Zero, DefaultFontSize, DefaultFontColor, video),
                  style |-> NULL]
    /\ currentSubtitles = <<>>
    /\ timeOffset = Zero
    /\ fontSize = DefaultFontSize
    /\ fontColor = DefaultFontColor
    /\ initTimer = FALSE
    /\ storageRead = FALSE
    /\ storage = [loadedSubtitle |-> NULL, subtitleAppearance |-> NULL]
    /\ request \in {r \in Requests : r.action = "setAppearance"}
    /\ retries = <<request>>
    /\ response = [success |-> TRUE]
    /\ videoPlayerFound = FALSE
    /\ listeners = 1
    /\ PopupClosed

\* The retry fires and renders again.
FormatSpec == FormatInit /\ [][Retry]_vars

(***************************************************************************)
(* popup.ts: the popup, its messages to the content script and the         *)
(* callbacks that take the responses                                       *)
(***************************************************************************)

\* s.toLowerCase(), for the letters A to Z.
ToLowerCase(s) ==
    LET UpperCase ==
            <<"A", "B", "C", "D", "E", "F", "G", "H", "I", "J", "K", "L", "M",
              "N", "O", "P", "Q", "R", "S", "T", "U", "V", "W", "X", "Y", "Z">>
        LowerCase ==
            <<"a", "b", "c", "d", "e", "f", "g", "h", "i", "j", "k", "l", "m",
              "n", "o", "p", "q", "r", "s", "t", "u", "v", "w", "x", "y", "z">>
    IN  [i \in 1 .. Len(s) |->
            IF \E k \in 1 .. 26 : UpperCase[k] = s[i]
            THEN LowerCase[CHOOSE k \in 1 .. 26 : UpperCase[k] = s[i]]
            ELSE s[i]]

validExtensions ==
    {<<".", "s", "r", "t">>, <<".", "v", "t", "t">>, <<".", "s", "u", "b">>,
     <<".", "a", "s", "s">>}

\* fileExt of processFile: '.' + file.name.split('.').pop()?.toLowerCase()
FileExt(name) ==
    <<".">> \o ToLowerCase(Split(name, <<".">>)[Len(Split(name, <<".">>))])

\* The files given to processFile: A.VTT, a.txt and the file named srt,
\* each with the text of two entries, and the empty file a.ass.
Files ==
    {[name |-> <<"A", ".", "V", "T", "T">>, content |-> TextAB],
     [name |-> <<"a", ".", "t", "x", "t">>, content |-> TextAB],
     [name |-> <<"s", "r", "t">>, content |-> TextAB],
     [name |-> <<"a", ".", "a", "s", "s">>, content |-> TextEmpty]}

\* The deltas of the offset buttons, with their number of tenths: 0.1 and
\* 0.2.
Deltas ==
    {[tenths |-> 1, value |-> Tenth], [tenths |-> 2, value |-> FDivNat(FromInt(2), 10)]}

\* The number of messages and responses that may be on their way when an
\* offset button is clicked or a file has been read.
MaxInFlight == 2

\* The largest sum of the deltas clicked, in tenths.
MaxClicked == 3

\* The largest sum of the deltas clicked on the font size buttons, in
\* pixels, and how far below zero the sum may go.
MaxSizeClicked == 22

MaxSizeBelow == 2

\* roundedOffset of adjustOffset: Math.round(newOffset * 10) / 10, where
\* Math.round(x), of a number of magnitude below 2^31, is an integer and
\* halves go up.
RoundedOffset(newOffset) ==
    LET MathRound(x) ==
            IF ~x.neg THEN MagInt(x.bits) + (IF -1 \in x.bits THEN 1 ELSE 0)
            ELSE IF -1 \in x.bits /\ {k \in x.bits : k < -1} # {}
                 THEN 0 - MagInt(x.bits) - 1
                 ELSE 0 - MagInt(x.bits)
    IN  FDivNat(FromInt(MathRound(FMulNat(newOffset, 10))), 10)

\* response?.success
Succeeded(resp) == resp # NULL /\ "success" \in DOMAIN resp /\ resp.success

\* response?.offset !== undefined
HasOffset(resp) == resp # NULL /\ "offset" \in DOMAIN resp

\* sendMessage(message, callback): the message joins those on their way to
\* the listeners of the tab, in the order of the calls.
sendMessage(message, callback) ==
    sent' = Append(sent, [message |-> message, callback |-> callback])

\* updateOffsetDisplay(offset): the popup's state after it.
updateOffsetDisplay(offset) == [popup EXCEPT !.currentOffset = offset]

\* saveSubtitle(data): the storage after it.  (Of the persisted record the
\* content is modelled; the file name and the count are for the popup's
\* display.)
saveSubtitle(content) == [storage EXCEPT !.loadedSubtitle = [content |-> content]]

\* What the popup leaves untouched in the page: all of the content script
\* and of the overlay.
contentSide ==
    <<subtitleOverlay, platform, overlay, overlayFields, video, timers, request,
      response, adapter>>

\* The state after content.ts has run and the popup has been opened:
\* DOMContentLoaded has sent the getOffset message of checkConnection and
\* the one of getCurrentOffset, and loadSavedSubtitle and
\* loadSavedAppearance have issued their storage reads.
PopupInit ==
    /\ subtitleOverlay = NULL
    /\ platform = NULL
    /\ overlay = NULL
    /\ currentSubtitles = <<>>
    /\ timeOffset = Zero
    /\ fontSize = DefaultFontSize
    /\ fontColor = DefaultFontColor
    /\ video = [currentTime |-> NULL, duration |-> NULL]
    /\ initTimer = TRUE
    /\ storageRead = FALSE
    /\ retries = <<>>
    /\ storage \in Storages
    /\ request = NULL
    /\ response = NULL
    /\ videoPlayerFound = FALSE
    /\ listeners = 0
    /\ popup = PopupLets
    /\ popupReads = {"loadedSubtitle", "subtitleAppearance"}
    /\ reader = NULL
    /\ sent = <<[message |-> [action |-> "getOffset"],
                 callback |-> [name |-> "checkConnection"]],
                [message |-> [action |-> "getOffset"],
                 callback |-> [name |-> "getCurrentOffset"]]>>
    /\ replies = <<>>
    /\ clicked = 0

\* The listeners of the tab take a message: the one of content.ts and, once
\* the overlay is constructed, the one of SubtitleOverlay.
Listeners(req) ==
    \/ OnLoadSubtitles(req)
    \/ OnSetAppearance(req)
    \/ OnGetOffset(req)
    \/ OnSetOffset(req)
    \/ OnIncreaseOffset(req)
    \/ OnDecreaseOffset(req)
    \/ OnResetOffset(req)

\* chrome.tabs.sendMessage delivers the oldest message on its way; what
\* sendResponse was called with, or nothing, goes back to its callback.
Deliver ==
    /\ sent # <<>>
    /\ Listeners(Head(sent).message)
    /\ sent' = Tail(sent)
    /\ replies' = Append(replies, [callback |-> Head(sent).callback,
                                   response |-> response'])
    /\ UNCHANGED <<popup, popupReads, reader, clicked>>

\* The callback given to sendMessage runs with the response: the one of
\* checkConnection, of getCurrentOffset, of adjustOffset, of processFile,
\* or one that changes nothing.
Reply ==
    /\ replies # <<>>
    /\ replies' = Tail(replies)
    /\ popup' =
          IF Head(replies).callback.name = "checkConnection"
          THEN IF Head(replies).response # NULL
               THEN [popup EXCEPT !.isConnected = TRUE] ELSE popup
          ELSE IF Head(replies).callback.name = "getCurrentOffset"
          THEN IF HasOffset(Head(replies).response)
               THEN updateOffsetDisplay(Head(replies).response.offset) ELSE popup
          ELSE IF Head(replies).callback.name = "adjustOffset"
          THEN IF HasOffset(Head(replies).response)
               THEN updateOffsetDisplay(Head(replies).response.offset)
               ELSE IF Succeeded(Head(replies).response)
               THEN updateOffsetDisplay(Head(replies).callback.roundedOffset)
               ELSE popup
          ELSE popup
    /\ storage' =
          IF Head(replies).callback.name = "processFile"
             /\ Succeeded(Head(replies).response)
          THEN saveSubtitle(Head(replies).callback.content)
          ELSE storage
    /\ UNCHANGED <<contentSide, popupReads, reader, sent, clicked>>

\* The chrome.storage.local.get callback of loadSavedSubtitle: the persisted
\* text is sent to the content script again.
loadSavedSubtitle ==
    /\ "loadedSubtitle" \in popupReads
    /\ popupReads' = popupReads \ {"loadedSubtitle"}
    /\ IF storage.loadedSubtitle # NULL /\ Len(storage.loadedSubtitle.content) > 0
       THEN sendMessage([action |-> "loadSubtitles",
                         subtitles |-> storage.loadedSubtitle.content],
                        [name |-> "none"])
       ELSE UNCHANGED sent
    /\ UNCHANGED <<contentSide, storage, popup, reader, replies, clicked>>

\* The chrome.storage.local.get callback of loadSavedAppearance: the
\* persisted size and colour become the popup's, and the popup's are sent to
\* the content script.
loadSavedAppearance ==
    /\ "subtitleAppearance" \in popupReads
    /\ popupReads' = popupReads \ {"subtitleAppearance"}
    /\ popup' = IF storage.subtitleAppearance # NULL
                THEN [popup EXCEPT
                        !.currentFontSize = storage.subtitleAppearance.fontSize,
                        !.currentFontColor = storage.subtitleAppearance.fontColor]
                ELSE popup
    /\ sendMessage([action |-> "setAppearance", fontSize |-> popup'.currentFontSize,
                    fontColor |-> popup'.currentFontColor],
                   [name |-> "sendAppearanceToContentScript"])
    /\ UNCHANGED <<contentSide, storage, reader, replies, clicked>>

\* adjustOffset(delta): the click of an offset button.
adjustOffset(delta) ==
    /\ Len(sent) + Len(replies) < MaxInFlight
    /\ clicked + delta.tenths <= MaxClicked
    /\ clicked' = clicked + delta.tenths
    /\ sendMessage([action |-> "setOffset",
                    offset |-> RoundedOffset(FAdd(popup.currentOffset, delta.value))],
                   [name |-> "adjustOffset",
                    roundedOffset |->
                        RoundedOffset(FAdd(popup.currentOffset, delta.value))])
    /\ UNCHANGED <<contentSide, storage, popup, popupReads, reader, replies>>

\* processFile(file) up to reader.readAsText(file): a file whose fileExt is
\* not among the valid ones is refused, another one is given to the reader
\* (one file at a time here).
processFile(file) ==
    /\ reader = NULL
    /\ reader' = IF FileExt(file.name) \in validExtensions THEN file ELSE NULL
    /\ UNCHANGED <<contentSide, storage, popup, popupReads, sent, replies, clicked>>

\* reader.onload, or reader.onerror when the file cannot be read: the text
\* that was read, unless it is empty, is sent to the content script.
ReaderDone ==
    /\ reader # NULL
    /\ Len(sent) + Len(replies) < MaxInFlight
    /\ reader' = NULL
    /\ \E loaded \in BOOLEAN :
          IF loaded /\ Len(reader.content) > 0
          THEN sendMessage([action |-> "loadSubtitles", subtitles |-> reader.content],
                           [name |-> "processFile", content |-> reader.content])
          ELSE UNCHANGED sent
    /\ UNCHANGED <<contentSide, storage, popup, popupReads, replies, clicked>>

\* A changeFontSize that does not clamp.
changeFontSizeUnclamped(delta) ==
    /\ Len(sent) + Len(replies) < MaxInFlight
    /\ clicked + delta \in (0 - MaxSizeBelow) .. MaxSizeClicked
    /\ clicked' = clicked + delta
    /\ popup' = [popup EXCEPT !.currentFontSize = popup.currentFontSize + delta]
    /\ storage' = [storage EXCEPT !.subtitleAppearance =
                      [fontSize |-> popup'.currentFontSize,
                       fontColor |-> popup.currentFontColor]]
    /\ sendMessage([action |-> "setAppearance", fontSize |-> popup'.currentFontSize,
                    fontColor |-> popup.currentFontColor],
                   [name |-> "sendAppearanceToContentScript"])
    /\ UNCHANGED <<contentSide, popupReads, reader, replies>>

\* changeFontSize(delta): the click of a font size button.  The size is
\* clamped to 16..48; if it differs from the current one it becomes the
\* current one, saveAppearance() persists it with the colour and
\* sendAppearanceToContentScript() sends both.  (clicked is here the sum of
\* the deltas clicked, in pixels.)
changeFontSize(delta) ==
    LET sum == popup.currentFontSize + delta
        newSize == IF sum > 48 THEN 48 ELSE IF sum < 16 THEN 16 ELSE sum
    IN  /\ newSize # popup.currentFontSize => Len(sent) + Len(replies) < MaxInFlight
        /\ clicked + delta \in (0 - MaxSizeBelow) .. MaxSizeClicked
        /\ clicked' = clicked + delta
        /\ IF newSize # popup.currentFontSize
           THEN /\ popup' = [popup EXCEPT !.currentFontSize = newSize]
                /\ storage' = [storage EXCEPT !.subtitleAppearance =
                                  [fontSize |-> newSize,
                                   fontColor |-> popup.currentFontColor]]
                /\ sendMessage([action |-> "setAppearance", fontSize |-> newSize,
                                fontColor |-> popup.currentFontColor],
                               [name |-> "sendAppearanceToContentScript"])
           ELSE UNCHANGED <<popup, storage, sent>>
        /\ UNCHANGED <<contentSide, popupReads, reader, replies>>

OffsetNext ==
    \/ Construct
    \/ StorageLoaded
    \/ Retry
    \/ Deliver
    \/ Reply
    \/ loadSavedSubtitle
    \/ loadSavedAppearance
    \/ \E delta \in Deltas : adjustOffset(delta)

\* The content script and the popup, opened on its page, whose user clicks
\* the offset buttons.
OffsetSpec == PopupInit /\ [][OffsetNext]_vars

FileNext ==
    \/ Construct
    \/ StorageLoaded
    \/ Retry
    \/ Deliver
    \/ Reply
    \/ loadSavedSubtitle
    \/ loadSavedAppearance
    \/ \E file \in Files : processFile(file)
    \/ ReaderDone

\* The content script and the popup, opened on its page, whose user chooses
\* files.
FileSpec == PopupInit /\ [][FileNext]_vars

FontNext ==
    \/ Construct
    \/ StorageLoaded
    \/ Retry
    \/ Deliver
    \/ Reply
    \/ loadSavedSubtitle
    \/ loadSavedAppearance
    \/ \E delta \in {0 - 2, 2} : changeFontSize(delta)

\* The content script and the popup, opened on its page, whose user clicks
\* the font size buttons.
FontSpec == PopupInit /\ [][FontNext]_vars

(***************************************************************************)
(* Properties                                                              *)
(***************************************************************************)

\* An entry is active at time t under the offset d when
\* t >= start + d and t < end + d.
Active(e, t, d) == FGeq(t, FAdd(e.startTime, d)) /\ FLess(t, FAdd(e.endTime, d))

\* The entries of currentSubtitles active at the player's time under the
\* current offset.
ActiveNow ==
    {i \in 1 .. Len(currentSubtitles) :
        Active(currentSubtitles[i], video.currentTime, timeOffset)}

\* C1: whenever the surface shows a playback time, the subtitle on it is the
\* text of the first entry, in the order of the loaded text, that is active
\* at that time under the current offset, and there is no subtitle on it
\* when no entry is active.
C1_FirstActiveRendered ==
    (overlay # NULL /\ video.currentTime # NULL) =>
        IF ActiveNow = {} THEN overlay.innerHTML.subtitle = NULL
        ELSE /\ overlay.innerHTML.subtitle # NULL
             /\ overlay.innerHTML.subtitle.text = currentSubtitles[Min(ActiveNow)].text

\* C1: the example of the claim: entries (0, 5, "A") and (2, 7, "B"), time 3,
\* offset 0, both active, "A" on the surface.
C1_Witness ==
    /\ overlay # NULL
    /\ currentSubtitles = ParseTable[TextAB]
    /\ timeOffset = Zero
    /\ video.currentTime = FromInt(3)
    /\ ActiveNow = {1, 2}
    /\ overlay.innerHTML.subtitle # NULL
    /\ overlay.innerHTML.subtitle.text = <<"A">>

\* The text of entry i of currentSubtitles is the subtitle on the surface.
Shows(i) ==
    /\ overlay # NULL
    /\ overlay.innerHTML.subtitle # NULL
    /\ overlay.innerHTML.subtitle.text = currentSubtitles[i].text

\* The entry of currentSubtitles active at time t with offset 0, 0 when none.
ActiveUnshifted(t) == FindCurrent(currentSubtitles, t, Zero, 1)

\* C2: offset shift: when the offset is d and the player's time is T + d, for
\* a time T at which entry E is the active entry with offset 0, then E is
\* the active entry, the one on the surface.
C2_OffsetShift ==
    \A s \in Snapshots :
        (/\ overlay # NULL
         /\ video.currentTime # NULL
         /\ s.currentTime # NULL
         /\ video.currentTime = FAdd(s.currentTime, timeOffset)
         /\ ActiveUnshifted(s.currentTime) # 0)
        => Shows(ActiveUnshifted(s.currentTime))

\* C3: from the offset of any state, increaseOffset then decreaseOffset, and
\* decreaseOffset then increaseOffset, leave exactly that offset.
C3_RoundTrip ==
    /\ decreased(increased(timeOffset)) = timeOffset
    /\ increased(decreased(timeOffset)) = timeOffset

\* C4: once a resetOffset message is the last one delivered, the offset is
\* 0, whatever was delivered and loaded before, and the response to it,
\* sent by the overlay's listener, is {success, offset: 0}.
C4_ResetYieldsZero ==
    (request # NULL /\ request.action = "resetOffset") =>
        /\ timeOffset = Zero
        /\ response # NULL => response = [success |-> TRUE, offset |-> Zero]
        /\ overlay # NULL => overlay.innerHTML.offset = NULL

\* C4: a resetOffset answered with offset 0 after subtitles were loaded and
\* the appearance was set.
C4_Witness ==
    /\ request # NULL
    /\ request.action = "resetOffset"
    /\ response = [success |-> TRUE, offset |-> Zero]
    /\ timeOffset = Zero
    /\ currentSubtitles # <<>>
    /\ fontSize # DefaultFontSize
    /\ overlay # NULL

\* The subtitle on the surface after the step is the text of the first
\* entry active at the player's time under the offset d, none when no entry
\* is active.
QueryUses(d) ==
    (overlay' # NULL /\ video'.currentTime # NULL) =>
        LET act == {i \in 1 .. Len(currentSubtitles') :
                        Active(currentSubtitles'[i], video'.currentTime, d)}
        IN  IF act = {} THEN overlay'.innerHTML.subtitle = NULL
            ELSE /\ overlay'.innerHTML.subtitle # NULL
                 /\ overlay'.innerHTML.subtitle.text = currentSubtitles'[Min(act)].text

\* C5: a setOffset(v) message handled by the overlay leaves the offset v
\* from whatever offset it was, the surface it re-renders shows the entry
\* active under v, and the response is {success, offset: v}; a getOffset
\* message is answered with the offset and changes neither the offset, the
\* entries, the appearance nor the surface.
C5_SetAndGetOffset ==
    [][/\ \A req \in Requests :
            (OnSetOffset(req) /\ subtitleOverlay # NULL) =>
                /\ timeOffset' = req.offset
                /\ response' = [success |-> TRUE, offset |-> req.offset]
                /\ QueryUses(req.offset)
       /\ \A req \in Requests :
            (OnGetOffset(req) /\ subtitleOverlay # NULL) =>
                /\ response' = [offset |-> timeOffset]
                /\ UNCHANGED <<timeOffset, currentSubtitles, fontSize, fontColor, overlay>>
      ]_vars

\* C5: a setOffset(0.1) answered while an offset indicator of 0.1 and a
\* subtitle are on the surface.
C5_Witness ==
    /\ request # NULL
    /\ request.action = "setOffset"
    /\ response = [success |-> TRUE, offset |-> Tenth]
    /\ timeOffset = Tenth
    /\ overlay # NULL
    /\ overlay.innerHTML.offset = [prefix |-> "+", value |-> Tenth]
    /\ overlay.innerHTML.subtitle # NULL

\* A loadSubtitles of the text t is applied in this step: a message handled
\* once the overlay exists, or the retry of a deferred one.
LoadApplied(t) ==
    \/ /\ subtitleOverlay # NULL
       /\ OnLoadSubtitles([action |-> "loadSubtitles", subtitles |-> t])
    \/ /\ retries # <<>>
       /\ Head(retries) = [action |-> "loadSubtitles", subtitles |-> t]
       /\ Retry

\* C6: a loadSubtitles(t) that is applied leaves exactly the entries of
\* parse(t), and the surface it re-renders shows one of them or none; in
\* every step the entries either stay as they are or become the parse of one
\* text, never a mix of the old and the new ones.
C6_LoadReplaces ==
    [][/\ \A t \in Texts :
            LoadApplied(t) =>
                /\ currentSubtitles' = ParseTable[t]
                /\ QueryUses(timeOffset)
       /\ currentSubtitles' \in {currentSubtitles} \cup {ParseTable[t] : t \in LoadedTexts}
      ]_vars

\* C6: the entries of the two-entry text are in place, loaded by message
\* after the entry of the stored text had been loaded at start-up.
C6_Witness ==
    /\ storage.loadedSubtitle # NULL
    /\ subtitleOverlay # NULL
    /\ ~storageRead
    /\ retries = <<>>
    /\ request = [action |-> "loadSubtitles", subtitles |-> TextAB]
    /\ currentSubtitles = ParseTable[TextAB]
    /\ Len(currentSubtitles) = 2

\* C7: a loadSubtitles("") that is applied leaves no entry, whatever was
\* loaded before, and while there is no entry the surface shows no subtitle,
\* at any playback time and any offset.
C7_EmptyTextClears ==
    /\ [][LoadApplied(TextEmpty) => currentSubtitles' = <<>>]_vars
    /\ [](currentSubtitles = <<>> /\ overlay # NULL => overlay.innerHTML.subtitle = NULL)

\* C7: the empty text was loaded over the stored entry, at a playback time
\* and an offset at which that entry was on the surface before.
C7_Witness ==
    /\ storage.loadedSubtitle # NULL
    /\ subtitleOverlay # NULL
    /\ ~storageRead
    /\ retries = <<>>
    /\ request = [action |-> "loadSubtitles", subtitles |-> TextEmpty]
    /\ currentSubtitles = <<>>
    /\ video.currentTime = BelowOne
    /\ timeOffset = Zero
    /\ overlay # NULL
    /\ overlay.innerHTML.subtitle = NULL

\* The fields of the response the interface table gives for an action.
ResponseFields(action) ==
    IF action \in {"loadSubtitles", "setAppearance"} THEN {"success"}
    ELSE IF action = "getOffset" THEN {"offset"}
    ELSE {"success", "offset"}

\* C8: every control message delivered has been answered in the same turn,
\* with the fields the interface table gives for its action, in every state
\* of the page.
C8_ImmediateResponse ==
    request # NULL =>
        /\ response # NULL
        /\ DOMAIN response = ResponseFields(request.action)

\* The messages the content script defers while there is no overlay.
Deferrable == {r \in Requests : r.action \in {"loadSubtitles", "setAppearance"}}

\* The payload of the message r is in place in the overlay.
InPlace(r) ==
    IF r.action = "loadSubtitles" THEN currentSubtitles = ParseTable[r.subtitles]
    ELSE fontSize = r.fontSize /\ fontColor = r.fontColor

\* C9: a loadSubtitles or setAppearance message delivered while there is no
\* overlay yet is retried, and its payload is eventually in place in the
\* overlay: the entries are the parse of its text, or the font size and
\* color are the ones it carries.
C9_DeferredApplied ==
    \A r \in Deferrable :
        (request = r /\ subtitleOverlay = NULL /\ r \in {retries[i] : i \in DOMAIN retries})
            ~> (subtitleOverlay # NULL /\ InPlace(r))

\* C9: the entries of a text whose message was deferred are in place: the
\* storage held no text and the message delivered last, handled at once,
\* carried the empty text, so that only the retry can have loaded them.
C9_Witness ==
    /\ storage.loadedSubtitle = NULL
    /\ subtitleOverlay # NULL
    /\ retries = <<>>
    /\ request = [action |-> "loadSubtitles", subtitles |-> TextEmpty]
    /\ currentSubtitles = ParseTable[TextAB]

\* C10: messages take effect in the order of their arrival: once every
\* loadSubtitles message delivered has been applied, the entries are those
\* of the one delivered last, also when an earlier one was deferred.  (The
\* storage holds no text, so that only messages load entries.)
C10_ArrivalOrder ==
    (/\ storage.loadedSubtitle = NULL
     /\ subtitleOverlay # NULL
     /\ retries = <<>>
     /\ request # NULL
     /\ request.action = "loadSubtitles")
    => currentSubtitles = ParseTable[request.subtitles]

\* The overlay was constructed on a supported site and cleanup() has removed
\* its element since.
Cleaned == subtitleOverlay # NULL /\ platform # NULL /\ overlay = NULL

\* C11: cleanup() removes the rendered surface, and every step taken after
\* it (a tick, a control message, a deferred retry) completes without
\* making or writing a surface: an offset message is still answered with
\* the offset it leaves, and a retried loadSubtitles still leaves the parse
\* of its text.
C11_CleanupNoOps ==
    [][/\ cleanup => overlay' = NULL
       /\ Cleaned => overlay' = NULL
       /\ \A req \in Requests :
            (Cleaned /\ OnSetOffset(req)) =>
                /\ timeOffset' = req.offset
                /\ response' = [success |-> TRUE, offset |-> req.offset]
       /\ \A t \in Texts :
            (Cleaned /\ LoadApplied(t)) => currentSubtitles' = ParseTable[t]
      ]_vars

\* C11: the surface has been removed while a deferred retry is in flight
\* and entries are loaded.
C11_Witness ==
    /\ Cleaned
    /\ retries # <<>>
    /\ currentSubtitles # <<>>

\* C12: while the platform reports no playback time, the surface is the
\* placeholder: both clocks read --:--, and there is no entry text and no
\* offset indicator, whatever entries, offset and appearance are held.
C12_AbsentTimePlaceholder ==
    (overlay # NULL /\ video.currentTime = NULL) =>
        /\ overlay.innerHTML.time = PlaceholderClock
        /\ overlay.innerHTML.duration = PlaceholderClock
        /\ overlay.innerHTML.subtitle = NULL
        /\ overlay.innerHTML.offset = NULL

\* C12: a setOffset message was handled, and so the surface rendered, with
\* entries loaded, a non-zero offset and a changed appearance while the
\* platform reports no playback time.
C12_Witness ==
    /\ overlay # NULL
    /\ video.currentTime = NULL
    /\ currentSubtitles # <<>>
    /\ timeOffset = Tenth
    /\ fontSize # DefaultFontSize
    /\ request # NULL
    /\ request.action = "setOffset"
    /\ response # NULL
    /\ overlay.innerHTML = PlaceholderHTML

\* C13: every mutator and every tick renders before it returns: while
\* platform and surface exist, the surface is the render of the entries,
\* offset and appearance held, at the time the platform reports.  With a
\* playback time, the offset indicator is there exactly when the offset is
\* not 0 and shows the offset held, and a subtitle on the surface is the
\* text of an entry active under the entries and offset held, in the font
\* size and color held.
C13_RenderFollowsState ==
    (platform # NULL /\ overlay # NULL) =>
        /\ overlay.innerHTML =
              Render(currentSubtitles, timeOffset, fontSize, fontColor, video)
        /\ video.currentTime # NULL =>
              /\ (overlay.innerHTML.offset = NULL) <=> (timeOffset = Zero)
              /\ overlay.innerHTML.offset # NULL =>
                    overlay.innerHTML.offset.value = timeOffset
              /\ overlay.innerHTML.subtitle # NULL =>
                    /\ \E i \in ActiveNow :
                          overlay.innerHTML.subtitle.text = currentSubtitles[i].text
                    /\ overlay.innerHTML.subtitle.fontSize = fontSize
                    /\ overlay.innerHTML.subtitle.fontColor = fontColor

\* C13: a setAppearance message was handled while a subtitle and an offset
\* indicator were on the surface, and the subtitle is in the new size.
C13_Witness ==
    /\ platform # NULL
    /\ overlay # NULL
    /\ request # NULL
    /\ request.action = "setAppearance"
    /\ storage.subtitleAppearance = NULL
    /\ retries = <<>>
    /\ timeOffset # Zero
    /\ overlay.innerHTML.offset # NULL
    /\ overlay.innerHTML.subtitle # NULL
    /\ overlay.innerHTML.subtitle.fontSize = request.fontSize
    /\ request.fontSize # DefaultFontSize

\* A setAppearance is applied in this step: a message handled once the
\* overlay exists, or the retry of a deferred one.
AppearanceApplied ==
    \/ /\ subtitleOverlay # NULL
       /\ \E req \in Requests : OnSetAppearance(req)
    \/ /\ retries # <<>>
       /\ Head(retries).action = "setAppearance"
       /\ Retry

\* One of the four offset mutators is applied in this step.
OffsetApplied ==
    /\ subtitleOverlay # NULL
    /\ \E req \in Requests :
          \/ OnSetOffset(req)
          \/ OnIncreaseOffset(req)
          \/ OnDecreaseOffset(req)
          \/ OnResetOffset(req)

\* C14: setAppearance leaves the entries and the offset as they are; the
\* four offset mutators leave the entries and the appearance as they are;
\* loadSubtitles leaves the offset and the appearance as they are; a tick
\* leaves all of them as they are; and the entries change only by being
\* replaced as a whole by a loadSubtitles, from a message, a retry or the
\* storage: no entry held is altered.
C14_FrameConditions ==
    [][/\ AppearanceApplied => UNCHANGED <<currentSubtitles, timeOffset>>
       /\ OffsetApplied => UNCHANGED <<currentSubtitles, fontSize, fontColor>>
       /\ (\E t \in Texts : LoadApplied(t)) => UNCHANGED <<timeOffset, fontSize, fontColor>>
       /\ Tick => UNCHANGED <<currentSubtitles, timeOffset, fontSize, fontColor>>
       /\ (currentSubtitles' # currentSubtitles) =>
             /\ StorageLoaded \/ \E t \in Texts : LoadApplied(t)
             /\ currentSubtitles' \in {ParseTable[t] : t \in LoadedTexts}
      ]_vars

\* C14: a decreaseOffset message was handled while entries were loaded and
\* the appearance was not the default one, and both are still in place.
C14_Witness ==
    /\ subtitleOverlay # NULL
    /\ request # NULL
    /\ request.action = "decreaseOffset"
    /\ response # NULL
    /\ timeOffset = FNeg(One)
    /\ Len(currentSubtitles) = 2
    /\ fontSize # DefaultFontSize

\* The retry has fired: the text of the message has been loaded.
Loaded == retries = <<>> /\ request # NULL /\ request.action = "loadSubtitles"

\* C15: no entry held has a start or end time that is not a number, and the
\* number of entries parsed from a text is the number of its blocks that
\* have a timestamp line with both tokens parseable, followed by text: a cue
\* with a token that is no number contributes no entry.
C15_ParseableEntriesOnly ==
    Loaded =>
        /\ \A i \in DOMAIN currentSubtitles :
              ~currentSubtitles[i].startTime.nan /\ ~currentSubtitles[i].endTime.nan
        /\ \A il \in IndexLines, s \in TimeTokens, e \in TimeTokens :
              request.subtitles = Cue(il, s, e) =>
                  Len(currentSubtitles) = IF s.value.nan \/ e.value.nan THEN 0 ELSE 1
        /\ \A bs \in BlockSeqs :
              request.subtitles = JoinBlocks(bs) =>
                  Len(currentSubtitles) = Len(JoinEntries(bs))

\* The sequences of blocks none of which has a timestamp line.
EntrylessSeqs == {bs \in BlockSeqs : JoinEntries(bs) = <<>>}

\* C16: parseSubtitles returns for every text, and what it returns is a
\* sequence of entries, each with index, start time, end time and a text
\* that is not empty; it is the empty sequence for the empty text, for a
\* text without arrow and for a text all of whose blocks are malformed (too
\* few lines, no timestamp line, a timestamp line of other than two tokens,
\* no text).
C16_ParsingNeverRaises ==
    Loaded =>
        /\ \A i \in DOMAIN currentSubtitles :
              /\ DOMAIN currentSubtitles[i] = {"index", "startTime", "endTime", "text"}
              /\ Len(currentSubtitles[i].text) > 0
        /\ request.subtitles \in MalformedTexts => currentSubtitles = <<>>
        /\ \A bs \in EntrylessSeqs :
              request.subtitles = JoinBlocks(bs) => currentSubtitles = <<>>
        /\ overlay # NULL /\ overlay.innerHTML = PlaceholderHTML

\* C16: a text whose only timestamp line has three tokens has been loaded.
C16_Witness ==
    /\ Loaded
    /\ request.subtitles \in MalformedTexts
    /\ Len(Split(request.subtitles, Arrow)) = 3
    /\ currentSubtitles = <<>>

\* C17: the entries parsed from a text of several blocks are the entries of
\* its blocks in the order of the blocks, also when the blocks are not in
\* the order of their times, when a block occurs twice and when the windows
\* of two blocks overlap.
C17_BlockOrder ==
    \A bs \in BlockSeqs :
        (Loaded /\ request.subtitles = JoinBlocks(bs)) =>
            currentSubtitles = JoinEntries(bs)

\* C17: three entries are held, the second earlier than the first and the
\* third equal to the first.
C17_Witness ==
    /\ Loaded
    /\ Len(currentSubtitles) = 3
    /\ FLess(currentSubtitles[2].startTime, currentSubtitles[1].startTime)
    /\ currentSubtitles[3] = currentSubtitles[1]

\* The cue with index line "3" and the timestamps 00:01:02,500 and
\* 00:01:05,000.
ExampleCue ==
    <<"3", "\n", "0", "0", ":", "0", "1", ":", "0", "2", ",", "5", "0", "0",
      " ", "-", "-", ">", " ", "0", "0", ":", "0", "1", ":", "0", "5", ",",
      "0", "0", "0", "\n", "A">>

\* C18: the entry of a cue has the integer of the line before the timestamp
\* line as index when there is such a line and it starts with an integer,
\* and 0 when the timestamp line is the first line or the line before it has
\* no integer; its start and end times are parseTime of the left and the
\* right token.  The cue "3" / 00:01:02,500 --> 00:01:05,000 gives index 3,
\* start 62.5 and end 65.
C18_IndexAndTimes ==
    /\ \A il \in IndexLines, s \in TimeTokens, e \in TimeTokens :
          (Loaded /\ request.subtitles = Cue(il, s, e)) =>
              /\ Len(currentSubtitles) = 1
              /\ currentSubtitles[1].index = FromInt(il.value)
              /\ currentSubtitles[1].startTime = parseTime(s.token)
              /\ currentSubtitles[1].endTime = parseTime(e.token)
    /\ (Loaded /\ request.subtitles = ExampleCue) =>
          currentSubtitles =
              <<[index |-> FromInt(3), startTime |-> FDivNat(FromInt(125), 2),
                 endTime |-> FromInt(65), text |-> <<"A">>]>>

\* C18: the example cue has been loaded and its entry has index 3.
C18_Witness ==
    /\ Loaded
    /\ request.subtitles = ExampleCue
    /\ Len(currentSubtitles) = 1
    /\ currentSubtitles[1].index = FromInt(3)

\* C19: the start and end times of a cue are the seconds its tokens stand
\* for: hours * 3600 + minutes * 60 + seconds + milliseconds / 1000 for
\* three components, minutes * 60 + seconds + milliseconds / 1000 for two,
\* milliseconds / 1000 alone for any other number of components, whatever
\* follows the first space dropped, milliseconds 0 without comma and point,
\* and components above 59 taken as they are; 01:02.250 is 62.25 seconds.
C19_TimeParser ==
    \A il \in IndexLines, s \in TimeTokens, e \in TimeTokens :
        (Loaded /\ request.subtitles = Cue(il, s, e)) =>
            /\ Len(currentSubtitles) = 1
            /\ currentSubtitles[1].startTime = s.value
            /\ currentSubtitles[1].endTime = e.value

\* C19: a cue from 01:02.250 to 1:2:3:4,500 has been loaded: it starts at
\* 62.25 seconds and ends at half a second.
C19_Witness ==
    /\ Loaded
    /\ Len(currentSubtitles) = 1
    /\ SubSeq(request.subtitles, 1, 9) = <<"0", "1", ":", "0", "2", ".", "2", "5", "0">>
    /\ currentSubtitles[1].startTime = FDivNat(FromInt(249), 4)
    /\ currentSubtitles[1].endTime = FDivNat(FromInt(1), 2)

\* Two and three decimal digits of a number below 100 and below 1000.
TwoDigits(k) == <<Digits[(k \div 10) + 1], Digits[(k % 10) + 1]>>

ThreeDigits(k) == <<Digits[(k \div 100) + 1]>> \o TwoDigits(k % 100)

\* HH:MM:SS.mmm of n thousandths of a second, for less than 100 hours.
ClockOfMillis(n) ==
    TwoDigits(n \div 3600000) \o <<":">> \o TwoDigits((n % 3600000) \div 60000)
    \o <<":">> \o TwoDigits((n % 60000) \div 1000) \o <<".">> \o ThreeDigits(n % 1000)

\* A text of the form H..H:MM:SS.mmm with at least two digits of hours.
FullForm(c) ==
    /\ Len(c) >= 12
    /\ c[Len(c) - 3] = "."
    /\ c[Len(c) - 6] = ":"
    /\ c[Len(c) - 9] = ":"
    /\ \A i \in (1 .. Len(c)) \ {Len(c) - 3, Len(c) - 6, Len(c) - 9} : IsDigit(c[i])

C21_SignedOffsetIndicator ==
    (overlay # NULL /\ video.currentTime # NULL) =>
        LET shown == overlay.innerHTML.offset
        IN  /\ (shown # NULL) <=> (timeOffset # Zero)
            /\ shown # NULL =>
                  /\ shown.value = timeOffset
                  /\ FGreater(timeOffset, Zero) =>
                        shown.prefix = "+" /\ NumberSign(shown.value) = ""
                  /\ FLess(timeOffset, Zero) =>
                        shown.prefix = "" /\ NumberSign(shown.value) = "-"
            /\ (request # NULL /\ request.action = "resetOffset"
                  /\ subtitleOverlay # NULL /\ response # NULL) => shown = NULL

\* C21: a negative offset on a surface that shows a playback time: the
\* indicator has no prefix and the offset's own "-".
C21_Witness ==
    /\ overlay # NULL
    /\ video.currentTime # NULL
    /\ timeOffset = FNeg(One)
    /\ overlay.innerHTML.offset = [prefix |-> "", value |-> FNeg(One)]

\* The overlay is constructed, the storage read issued at the construction
\* has been answered, and no popup message has been delivered.
Primed == subtitleOverlay # NULL /\ ~storageRead /\ request = NULL

\* C22: once the overlay is constructed and the persisted state read, and
\* before any popup message, the entries are those of the persisted text
\* when there is one and none otherwise, and the font size and colour are
\* the persisted appearance when there is one and 28 px, #FFFFFF otherwise.
C22_PrimedFromStorage ==
    Primed =>
        /\ currentSubtitles = IF storage.loadedSubtitle # NULL
                              THEN ParseTable[storage.loadedSubtitle.content]
                              ELSE <<>>
        /\ IF storage.subtitleAppearance # NULL
           THEN /\ fontSize = storage.subtitleAppearance.fontSize
                /\ fontColor = storage.subtitleAppearance.fontColor
           ELSE fontSize = 28 /\ fontColor = "#FFFFFF"

\* C22: primed from a storage that holds a text and an appearance: the
\* entry of the text and the persisted size and colour, no message so far.
C22_Witness ==
    /\ Primed
    /\ storage.loadedSubtitle # NULL
    /\ storage.subtitleAppearance # NULL
    /\ Len(currentSubtitles) = 1
    /\ currentSubtitles = ParseTable[TextC]
    /\ fontSize = 16
    /\ fontColor = "#FFFF00"

\* C23: rendering is idempotent and pure: a tick that finds the player's
\* time and duration as the render before it found them, the entries, the
\* offset and the appearance being unchanged, writes the same surface, and
\* changes nothing of the state.
C23_RenderIdempotent == [][(Tick /\ video' = video) => UNCHANGED vars]_vars

\* C23: a surface that shows a playback time, a subtitle and the offset
\* indicator, as a render wrote it: the render that follows with the same
\* inputs has all three to write again.
C23_Witness ==
    /\ overlay # NULL
    /\ video.currentTime # NULL
    /\ overlay.innerHTML.subtitle # NULL
    /\ overlay.innerHTML.offset # NULL
    /\ overlay.innerHTML =
          Render(currentSubtitles, timeOffset, fontSize, fontColor, video)

\* C24: whenever the surface shows a playback time, its duration field is
\* the formatted duration for every duration the player reports, a duration
\* of 0 seconds included, and the placeholder only when the player reports
\* no duration.
C24_DurationShown ==
    (overlay # NULL /\ video.currentTime # NULL) =>
        overlay.innerHTML.duration =
            IF video.duration = NULL THEN PlaceholderClock
            ELSE FormatTable[video.duration]

\* C25: an offset message delivered while there is no overlay yet is held
\* and retried, not dropped: for a setOffset message, the offset it carries
\* is eventually the offset of the constructed overlay.
C25_OffsetMessageRetried ==
    \A r \in {q \in Requests : q.action = "setOffset"} :
        (request = r /\ subtitleOverlay = NULL)
            ~> (subtitleOverlay # NULL /\ timeOffset = r.offset)

\* C26: the rules by which a block is kept or discarded: the timestamp line
\* is the first line of the block that holds " --> "; a block of fewer than
\* two lines, a block without such a line, a block whose first such line
\* does not split into two tokens (also when a later line is a timestamp
\* line of two tokens) and a block without text after that line contribute
\* no entry, and the blocks around them contribute theirs.
C26_BlockRules ==
    \A bs \in RuleSeqs :
        (Loaded /\ request.subtitles = JoinBlocks(bs)) =>
            currentSubtitles = JoinEntries(bs)

\* C26: the text of three blocks is loaded whose second block has a first
\* arrow line of three tokens and then a timestamp line of two: the entries
\* are those of the first and the third block.
C26_Witness ==
    /\ Loaded
    /\ Len(currentSubtitles) = 2
    /\ \E bs \in RuleSeqs :
          /\ Len(bs) = 3
          /\ request.subtitles = JoinBlocks(bs)
          /\ bs[2].entries = <<>>
          /\ \E i, j \in 1 .. Len(Split(bs[2].src, <<"\n">>)) :
                /\ i < j
                /\ Len(Split(Split(bs[2].src, <<"\n">>)[i], Arrow)) = 3
                /\ Len(Split(Split(bs[2].src, <<"\n">>)[j], Arrow)) = 2

\* The message delivered last is of the given action and has been applied
\* to the constructed overlay: at once, or by its retry.
AppliedLast(action) ==
    /\ request # NULL
    /\ request.action = action
    /\ subtitleOverlay # NULL
    /\ \A k \in DOMAIN retries : retries[k] # request

\* C29: once a loadSubtitles message has been applied to the constructed
\* overlay, the answer to the storage read of the startup does not replace
\* its entries by those of the persisted text, and once a setAppearance
\* message has been applied, it does not replace the font size and colour
\* by the persisted ones.
C29_StorageReadKeepsMessage ==
    [][StorageLoaded =>
         /\ AppliedLast("loadSubtitles") => currentSubtitles' = currentSubtitles
         /\ AppliedLast("setAppearance") => fontSize' = fontSize /\ fontColor' = fontColor
      ]_vars

\* C30: however often the observer callback fires, platform.videoPlayerFound
\* never goes back to false, and the overlay passes a further callback to
\* the platform, which is what its setupVideoListeners does, only in a step
\* of the observer callback that finds a video player and takes
\* videoPlayerFound from false to true: at most once for an overlay.
C30_SetupOnce ==
    [][/\ videoPlayerFound => videoPlayerFound'
       /\ (subtitleOverlay # NULL /\ listeners' # listeners) =>
             /\ ~videoPlayerFound
             /\ videoPlayerFound'
             /\ listeners' = listeners + 1
             /\ ObserverFires(TRUE)
             /\ ~ObserverFires(FALSE)
      ]_vars

\* C30: the observer callback has found the video player: the callback of
\* initialize and the one of setupVideoListeners are with the platform.
C30_Witness == subtitleOverlay # NULL /\ videoPlayerFound /\ listeners = 2

\* The number n / 10, as a number of the program.
Decimal(n) == FDivNat(FromInt(n), 10)

\* C28: when the responses to all the offset clicks have been delivered,
\* the overlay's offset is the starting offset, 0, plus the sum of the
\* deltas clicked, and the popup's currentOffset is the overlay's offset,
\* also when a click was made before the response to the one before it had
\* arrived.  (Stated for a popup that has found the content script
\* connected, so that none of its messages was sent before the overlay was
\* constructed.)
C28_ClicksAddUp ==
    (popup.isConnected /\ sent = <<>> /\ replies = <<>>) =>
        /\ timeOffset = Decimal(clicked)
        /\ popup.currentOffset = timeOffset

\* A file name that ends in one of the extensions .srt, .vtt, .sub, .ass,
\* in whatever case.
Supported(name) ==
    \E i \in 1 .. Len(name) :
        /\ name[i] = "."
        /\ ToLowerCase(SubSeq(name, i, Len(name))) \in validExtensions

\* C27: processFile on a file whose extension is none of .srt, .vtt, .sub,
\* .ass, in whatever case, gives nothing to the reader, sends no message and
\* writes nothing to the storage, so that the entries of the overlay and
\* the persisted subtitle stay; and the persisted subtitle is written only
\* by the callback of a loadSubtitles message that takes a response with
\* success.
C27_ExtensionValidated ==
    [][/\ \A file \in Files :
             (processFile(file) /\ ~Supported(file.name)) =>
                 UNCHANGED <<reader, sent, storage, currentSubtitles>>
       /\ storage' # storage =>
             /\ replies # <<>>
             /\ Head(replies).callback.name = "processFile"
             /\ Succeeded(Head(replies).response)
      ]_vars


\* The overlay object exists and PlatformDetector.detect() found no
\* platform.
Undetected == subtitleOverlay # NULL /\ platform = NULL

\* C31: when no supported platform is detected at construction, there is
\* no surface and no later step makes one (no tick callback is ever
\* registered, so no tick runs); the listener for the offset messages is
\* registered all the same: getOffset is answered with the offset held,
\* each offset mutator leaves its offset and reports it, loadSubtitles
\* leaves the parse of its text, and setAppearance leaves its size and
\* colour.
C31_NoPlatformNoSurface ==
    [][Undetected =>
         /\ overlay = NULL /\ overlay' = NULL
         /\ platform' = NULL /\ listeners' = 0
         /\ ~Tick
         /\ \A req \in Requests :
              /\ OnGetOffset(req) => response' = [offset |-> timeOffset]
              /\ OnSetOffset(req) =>
                    /\ timeOffset' = req.offset
                    /\ response' = [success |-> TRUE, offset |-> req.offset]
              /\ OnIncreaseOffset(req) =>
                    /\ timeOffset' = increased(timeOffset)
                    /\ response' = [success |-> TRUE, offset |-> timeOffset']
              /\ OnDecreaseOffset(req) =>
                    /\ timeOffset' = decreased(timeOffset)
                    /\ response' = [success |-> TRUE, offset |-> timeOffset']
              /\ OnResetOffset(req) =>
                    /\ timeOffset' = Zero
                    /\ response' = [success |-> TRUE, offset |-> Zero]
              /\ OnLoadSubtitles(req) =>
                    /\ currentSubtitles' = ParseTable[req.subtitles]
                    /\ response' = [success |-> TRUE]
              /\ OnSetAppearance(req) =>
                    /\ fontSize' = req.fontSize /\ fontColor' = req.fontColor
                    /\ response' = [success |-> TRUE]
      ]_vars

\* C31: without a platform and without a surface, entries are loaded, the
\* offset and the font size are not the initial ones, and the last message
\* was answered with the offset.
C31_Witness ==
    /\ Undetected
    /\ overlay = NULL
    /\ currentSubtitles # <<>>
    /\ timeOffset # Zero
    /\ fontSize # DefaultFontSize
    /\ response # NULL /\ "offset" \in DOMAIN response
    /\ response.offset = timeOffset


\* The font sizes of the popup's range.
SizeRange == 16 .. 48

\* C32: with the popup's font size starting within 16..48, the size buttons
\* keep currentFontSize within 16..48: a click leaves the current size plus
\* or minus 2, clamped to the range; a click whose clamped size is the
\* current one saves nothing and sends nothing; another click persists the
\* new size and sends it as the last setAppearance message; so no
\* setAppearance message on its way carries a size outside 16..48, and
\* neither the persisted size nor the overlay's is ever outside it.
C32_FontSizeClamped ==
    [][/\ popup.currentFontSize \in SizeRange
       /\ popup'.currentFontSize \in SizeRange
       /\ fontSize' \in SizeRange
       /\ storage'.subtitleAppearance # NULL =>
             storage'.subtitleAppearance.fontSize \in SizeRange
       /\ \A k \in DOMAIN sent' :
             sent'[k].message.action = "setAppearance" =>
                sent'[k].message.fontSize \in SizeRange
       /\ \A delta \in {0 - 2, 2} :
             changeFontSize(delta) =>
                /\ popup'.currentFontSize =
                      IF popup.currentFontSize + delta > 48 THEN 48
                      ELSE IF popup.currentFontSize + delta < 16 THEN 16
                      ELSE popup.currentFontSize + delta
                /\ IF popup'.currentFontSize = popup.currentFontSize
                   THEN UNCHANGED <<storage, sent>>
                   ELSE /\ storage'.subtitleAppearance.fontSize =
                              popup'.currentFontSize
                        /\ Len(sent') = Len(sent) + 1
                        /\ sent'[Len(sent')].message =
                              [action |-> "setAppearance",
                               fontSize |-> popup'.currentFontSize,
                               fontColor |-> popup.currentFontColor]
      ]_vars

\* C32: the size has gone from 28 up to 48 by ten clicks, an eleventh
\* click was clamped, and the overlay has received 48; nothing is on its
\* way.
C32_Witness ==
    /\ popup.currentFontSize = 48
    /\ clicked = 22
    /\ subtitleOverlay # NULL
    /\ fontSize = 48
    /\ storage.subtitleAppearance # NULL
    /\ storage.subtitleAppearance.fontSize = 48
    /\ sent = <<>> /\ replies = <<>>

=============================================================================
